---------------------------- MODULE Spec2Model ----------------------------
(***************************************************************************)
(* A model of strato's backend (src/backend/main.go): the users_table      *)
(* store, the in-memory `users` slice loaded from it, the GET and POST     *)
(* handlers that run concurrently against both, and the per-request        *)
(* computation of the "days since" fields.                                 *)
(*                                                                         *)
(* Go strings are sequences of one-character strings, so that              *)
(* strings.ToLower and time.Parse are computed character by character.     *)
(* Instants are whole hours since 1970-01-01T00:00Z: on that grid          *)
(* Duration.Hours()/24 is exact in float64, so int() of it is integer      *)
(* division truncated toward zero.                                         *)
(***************************************************************************)
EXTENDS Integers, Sequences, FiniteSets, TLC

(***************************************************************************)
(* Bounds of the model.                                                    *)
(***************************************************************************)
\* Number of requests served in one run; their handlers run concurrently.
MaxReqs == 2

(***************************************************************************)
(* Characters and strings.                                                 *)
(***************************************************************************)
UpperLetters == <<"A","B","C","D","E","F","G","H","I","J","K","L","M",
                  "N","O","P","Q","R","S","T","U","V","W","X","Y","Z">>

LowerLetters == <<"a","b","c","d","e","f","g","h","i","j","k","l","m",
                  "n","o","p","q","r","s","t","u","v","w","x","y","z">>

Digits == <<"0","1","2","3","4","5","6","7","8","9">>

\* The position of c in the sequence s, 0 when it is not in it.
IndexOf(c, s) ==
  IF \E i \in 1..Len(s) : s[i] = c
    THEN CHOOSE i \in 1..Len(s) : s[i] = c
    ELSE 0

UpperSet == {UpperLetters[i] : i \in 1..Len(UpperLetters)}

LowerOfUpper == [c \in UpperSet |-> LowerLetters[IndexOf(c, UpperLetters)]]

\* unicode.ToLower on one ASCII character.
LowerChar(c) == IF c \in UpperSet THEN LowerOfUpper[c] ELSE c

\* strings.ToLower.
ToLower(s) == [i \in 1..Len(s) |-> LowerChar(s[i])]

DigitSet == {Digits[i] : i \in 1..Len(Digits)}

ValueOfDigit == [c \in DigitSet |-> IndexOf(c, Digits) - 1]

\* time.isDigit(s, i): whether s has a decimal digit at 0-based offset i.
isDigit(s, i) == i + 1 <= Len(s) /\ s[i + 1] \in DigitSet

\* The value of the digit character c.
DigitVal(c) == ValueOfDigit[c]

\* s without its first n characters (Go's s[n:]).
Drop(s, n) == SubSeq(s, n + 1, Len(s))

\* time.cutspace: s without its leading spaces.
RECURSIVE cutspace(_)
cutspace(s) == IF Len(s) > 0 /\ s[1] = " " THEN cutspace(Drop(s, 1)) ELSE s

(***************************************************************************)
(* time.Parse("Jan 2 2006", value), as far as the layout uses it.          *)
(***************************************************************************)
shortMonthNames == << <<"J","a","n">>, <<"F","e","b">>, <<"M","a","r">>,
                      <<"A","p","r">>, <<"M","a","y">>, <<"J","u","n">>,
                      <<"J","u","l">>, <<"A","u","g">>, <<"S","e","p">>,
                      <<"O","c","t">>, <<"N","o","v">>, <<"D","e","c">> >>

\* time.lookup(shortMonthNames, value): the 1-based month whose name is a
\* prefix of value, letter case ignored; 0 when there is none.
lookupMonth(value) ==
  IF Len(value) < 3 THEN 0
  ELSE LET name == ToLower(SubSeq(value, 1, 3))
           hits == {m \in 1..12 : ToLower(shortMonthNames[m]) = name}
       IN IF hits = {} THEN 0 ELSE CHOOSE m \in hits : TRUE

\* time.skip(value, " "): the layout's space matches a run of spaces of the
\* value, or its end; ok is FALSE when the value goes on with another character.
skipSpace(value) ==
  IF Len(value) > 0 /\ value[1] # " "
    THEN [ok |-> FALSE, rest |-> value]
    ELSE [ok |-> TRUE, rest |-> cutspace(value)]

\* time.getnum(s, false): one or two leading digits.
getnum(s) ==
  IF ~isDigit(s, 0) THEN [ok |-> FALSE, n |-> 0, rest |-> s]
  ELSE IF ~isDigit(s, 1) THEN [ok |-> TRUE, n |-> DigitVal(s[1]), rest |-> Drop(s, 1)]
  ELSE [ok |-> TRUE, n |-> 10 * DigitVal(s[1]) + DigitVal(s[2]), rest |-> Drop(s, 2)]

\* The stdLongYear case of time.parse: exactly four digits.
getyear(s) ==
  IF Len(s) < 4 \/ ~isDigit(s, 0) \/ ~isDigit(s, 1) \/ ~isDigit(s, 2) \/ ~isDigit(s, 3)
    THEN [ok |-> FALSE, n |-> 0, rest |-> s]
    ELSE [ok |-> TRUE,
          n |-> 1000 * DigitVal(s[1]) + 100 * DigitVal(s[2])
                + 10 * DigitVal(s[3]) + DigitVal(s[4]),
          rest |-> Drop(s, 4)]

isLeap(year) == year % 4 = 0 /\ (year % 100 # 0 \/ year % 400 = 0)

\* time.daysIn(month, year).
daysIn(month, year) ==
  IF month = 2 THEN (IF isLeap(year) THEN 29 ELSE 28)
  ELSE IF month \in {4, 6, 9, 11} THEN 30 ELSE 31

\* Days from 1970-01-01 to the civil date year-month-day (proleptic Gregorian),
\* which is what time.Date(year, month, day, 0, 0, 0, 0, time.UTC) stands for.
DaysFromCivil(year, month, day) ==
  LET y   == IF month <= 2 THEN year - 1 ELSE year
      era == y \div 400
      yoe == y - era * 400
      mp  == (month + 9) % 12
      doy == (153 * mp + 2) \div 5 + day - 1
      doe == yoe * 365 + yoe \div 4 - yoe \div 100 + doy
  IN era * 146097 + doe - 719468

ParseFail == [ok |-> FALSE, hours |-> 0]

\* time.Parse("Jan 2 2006", value): ok and the instant parsed, in hours since
\* the epoch.
Parse(value) ==
  LET mon == lookupMonth(value) IN
  IF mon = 0 THEN ParseFail ELSE
  LET s1 == skipSpace(Drop(value, 3)) IN
  IF ~s1.ok THEN ParseFail ELSE
  LET d == getnum(s1.rest) IN
  IF ~d.ok THEN ParseFail ELSE
  LET s2 == skipSpace(d.rest) IN
  IF ~s2.ok THEN ParseFail ELSE
  LET y == getyear(s2.rest) IN
  IF ~y.ok THEN ParseFail ELSE
  IF Len(y.rest) > 0 THEN ParseFail ELSE
  IF d.n < 1 \/ d.n > daysIn(mon, y.n) THEN ParseFail ELSE
  [ok |-> TRUE, hours |-> 24 * DaysFromCivil(y.n, mon, d.n)]


(***************************************************************************)
(* The "days since" computation of getUsers.                               *)
(***************************************************************************)
\* The largest time.Duration (2^63 - 1 ns, 2562047.788 h) cut to whole hours.
\* Time.Sub saturates there; cutting the saturated value to whole hours does
\* not change int(Hours() / 24), which is 106751 either way.
MaxDurationHours == 2562047

\* now.Sub(t), in hours: the difference, saturated at the ends of Duration.
Sub(now, t) ==
  LET d == now - t
  IN IF d > MaxDurationHours THEN MaxDurationHours
     ELSE IF d < -MaxDurationHours THEN -MaxDurationHours
     ELSE d

\* int(x / y) for a float64 quotient of whole numbers: truncation toward zero.
Quot(a, b) == IF a >= 0 THEN a \div b ELSE -((-a) \div b)

\* Variant of DurationDays that rounds toward minus infinity instead.
DurationDays_Floor(d) == d \div 24

\* int(duration.Hours() / 24).
DurationDays(d) == Quot(d, 24)

\* One derived field of getUsers (lines 247-258, and again 261-272): -1 for an
\* empty date and for one time.Parse rejects, else the days from it to now.
DeriveDays(now, date) ==
  IF date # <<>>
    THEN LET p == Parse(date)
         IN IF ~p.ok THEN -1 ELSE DurationDays(Sub(now, p.hours))
    ELSE -1

\* Variant of DeriveUser that gives up on the record at the first date that
\* does not yield a day count, leaving its other derived field as it was.
DeriveUser_StopAtBadDate(now, u) ==
  IF DeriveDays(now, u.PasswordChangedDate) = -1
    THEN [u EXCEPT !.DaysSinceLastPasswordChange = -1]
    ELSE [u EXCEPT !.DaysSinceLastPasswordChange = DeriveDays(now, u.PasswordChangedDate),
                   !.DaysSinceLastAccess = DeriveDays(now, u.LastAccessDate)]

\* The body of getUsers' loop for one element of responseUsers.
DeriveUser(now, u) ==
  [u EXCEPT !.DaysSinceLastPasswordChange = DeriveDays(now, u.PasswordChangedDate),
            !.DaysSinceLastAccess = DeriveDays(now, u.LastAccessDate)]

(***************************************************************************)
(* The User struct and its JSON encoding.                                  *)
(***************************************************************************)
\* The zero value of User: what make([]User, n) fills the slice with.
ZeroUser ==
  [HumanUser |-> <<>>, CreateDate |-> <<>>, PasswordChangedDate |-> <<>>,
   DaysSinceLastPasswordChange |-> 0, LastAccessDate |-> <<>>,
   DaysSinceLastAccess |-> 0, MFAEnabled |-> <<>>]

\* The JSON keys json.Marshal writes for u: the omitempty fields are left out
\* when they hold "" or 0.
JsonKeys(u) ==
  {"humanUser", "mfaEnabled"}
    \cup (IF u.CreateDate # <<>> THEN {"createDate"} ELSE {})
    \cup (IF u.PasswordChangedDate # <<>> THEN {"passwordChangedDate"} ELSE {})
    \cup (IF u.DaysSinceLastPasswordChange # 0
            THEN {"daysSinceLastPasswordChange"} ELSE {})
    \cup (IF u.LastAccessDate # <<>> THEN {"lastAccessDate"} ELSE {})
    \cup (IF u.DaysSinceLastAccess # 0 THEN {"daysSinceLastAccess"} ELSE {})

JsonField(u, k) ==
  CASE k = "humanUser" -> u.HumanUser
    [] k = "createDate" -> u.CreateDate
    [] k = "passwordChangedDate" -> u.PasswordChangedDate
    [] k = "daysSinceLastPasswordChange" -> u.DaysSinceLastPasswordChange
    [] k = "lastAccessDate" -> u.LastAccessDate
    [] k = "daysSinceLastAccess" -> u.DaysSinceLastAccess
    [] k = "mfaEnabled" -> u.MFAEnabled

\* json.Marshal of one User: a JSON object, as a function of its keys.
EncodeUser(u) == [k \in JsonKeys(u) |-> JsonField(u, k)]

\* json.NewEncoder(w).Encode(responseUsers).
EncodeUsers(us) == [i \in 1..Len(us) |-> EncodeUser(us[i])]

(***************************************************************************)
(* The store: the rows of users_table, in the order a SELECT returns them. *)
(* A column that may be NULL is a sql.NullString; mfa_enabled is "true",   *)
(* "false", "null", or "bad" for a value Scan cannot convert to a bool     *)
(* (a users_table that was not created by initializeDB).                   *)
(***************************************************************************)
NullString(s) == [Valid |-> TRUE, String |-> s]

SqlNull == [Valid |-> FALSE, String |-> <<>>]

\* rows.Scan of one row into u and the sql.Null* locals: fails on a value it
\* cannot convert.
ScanOk(row) == row.mfa_enabled # "bad"

\* Variant of UserOfRow that gives a NULL mfa_enabled a value of its own.
UserOfRow_NullIsUnknown(row) ==
  [HumanUser |-> row.human_user,
   CreateDate |-> IF row.create_date.Valid THEN row.create_date.String ELSE <<>>,
   PasswordChangedDate |->
     IF row.password_changed_date.Valid THEN row.password_changed_date.String ELSE <<>>,
   DaysSinceLastPasswordChange |-> 0,
   LastAccessDate |->
     IF row.last_access_date.Valid THEN row.last_access_date.String ELSE <<>>,
   DaysSinceLastAccess |-> 0,
   MFAEnabled |-> IF row.mfa_enabled = "true" THEN <<"Y","e","s">>
                  ELSE IF row.mfa_enabled = "false" THEN <<"N","o">>
                  ELSE <<"U","n","k","n","o","w","n">>]

\* Lines 187-209 of loadUsers: the User built from a scanned row.
UserOfRow(row) ==
  [HumanUser |-> row.human_user,
   CreateDate |-> IF row.create_date.Valid THEN row.create_date.String ELSE <<>>,
   PasswordChangedDate |->
     IF row.password_changed_date.Valid THEN row.password_changed_date.String ELSE <<>>,
   DaysSinceLastPasswordChange |-> 0,
   LastAccessDate |->
     IF row.last_access_date.Valid THEN row.last_access_date.String ELSE <<>>,
   DaysSinceLastAccess |-> 0,
   MFAEnabled |-> IF row.mfa_enabled = "true" THEN <<"Y","e","s">> ELSE <<"N","o">>]

\* The loop of loadUsers over the rows of the query: a row whose Scan fails is
\* logged and skipped, the others are appended in order.
RECURSIVE ScanRows(_)
ScanRows(rows) ==
  IF rows = <<>> THEN <<>>
  ELSE IF ScanOk(Head(rows)) THEN <<UserOfRow(Head(rows))>> \o ScanRows(Tail(rows))
  ELSE ScanRows(Tail(rows))

(***************************************************************************)
(* The values the runs draw from.                                          *)
(***************************************************************************)
dJan1 == <<"J","a","n"," ","1"," ","2","0","2","5">>

dJan11 == <<"J","a","n"," ","1","1"," ","2","0","2","5">>

\* Not in the layout "Jan 2 2006".
dIso == <<"2","0","2","5","-","0","1","-","0","1">>

\* More than 292 years (the range of time.Duration) before any now below.
dOld == <<"J","a","n"," ","1"," ","1","7","0","0">>

Row(name, created, changed, accessed, mfa) ==
  [human_user |-> name, create_date |-> created, password_changed_date |-> changed,
   last_access_date |-> accessed, mfa_enabled |-> mfa]

rowA == Row(<<"A">>, NullString(dJan1), NullString(dJan1), NullString(dJan11), "true")

rowB == Row(<<"B">>, NullString(dJan1), NullString(dIso), NullString(dJan1), "null")

rowX == Row(<<"X">>, SqlNull, SqlNull, NullString(<<>>), "bad")

\* The users_table main finds after initializeDB, which leaves an existing
\* table as it is: rows like those it seeds, rows with NULLs, and a row that
\* Scan fails on.
InitStores == { <<rowA, rowB>>, <<rowX, rowA>> }

\* time.Now().UTC() of a read, in hours since the epoch: 10 days after dJan1
\* (and the midnight of dJan11), and 12 hours before dJan1.
Nows == { 24 * DaysFromCivil(2025, 1, 11),
          24 * DaysFromCivil(2024, 12, 31) + 12 }

\* A request body: one that json.Decode rejects, or a JSON object of string
\* fields.
BadBody == [ok |-> FALSE, obj |-> [k \in {} |-> <<>>]]

JsonBody(o) == [ok |-> TRUE, obj |-> o]

Body5(name, created, changed, accessed, mfa) ==
  JsonBody([k \in {"humanUser", "createDate", "passwordChangedDate",
                   "lastAccessDate", "mfaEnabled"} |->
              CASE k = "humanUser" -> name
                [] k = "createDate" -> created
                [] k = "passwordChangedDate" -> changed
                [] k = "lastAccessDate" -> accessed
                [] k = "mfaEnabled" -> mfa])

Bodies ==
  { BadBody,
    Body5(<<>>, dJan1, dJan1, dJan1, <<"Y","e","s">>),
    Body5(<<"C">>, dJan1, dOld, dJan11, <<"Y","E","S">>),
    JsonBody([k \in {"humanUser", "lastAccessDate", "mfaEnabled"} |->
                CASE k = "humanUser" -> <<"D">>
                  [] k = "lastAccessDate" -> dIso
                  [] k = "mfaEnabled" -> <<"n","O">>]),
    Body5(<<"A">>, dJan1, dJan1, dJan1, <<"N","o">>),
    Body5(<<"E">>, dJan1, dJan1, dJan1, <<"m","a","y","b","e">>),
    JsonBody([k \in {"humanUser"} |-> <<"E">>]) }

\* The HTTP methods of the requests.
Methods == {"GET", "POST", "OPTIONS", "PUT"}

\* What the database does with a statement of addUser: serve it, or fail its
\* Prepare or its Exec.
DbFaults == {"none", "prepare", "exec"}

\* What the database does with the query of loadUsers: serve it, fail it, or
\* fail while the rows are read (rows.Err()).
QueryFaults == {"none", "query", "rows"}

\* What a read past the end of a slice's array may find there.
JunkUser == [ZeroUser EXCEPT !.HumanUser = <<"?">>]

Fillers == {ZeroUser, JunkUser}

Reqs == 1..MaxReqs

(***************************************************************************)
(* The state.                                                              *)
(***************************************************************************)
VARIABLES
  phase,       \* of the process: "boot" (main before ListenAndServe), "serving", "exited"
  store,       \* the rows of users_table
  users,       \* the global slice `users`: its array (data) and its length (len)
  snaps,       \* history: every list loadUsers has assigned to users, in order
  pc,          \* per request: where its handler stands
  req,         \* per request: its method and body, and what the database does with its statement
  rlen,        \* getUsers: len(users) as line 239 read it
  rfirst,      \* history: the index in snaps of the list published when a read began
  rlast,       \* history: the index in snaps of the last list assigned when it ended
  loaded,      \* loadUsers: loadedUsers
  pend,        \* loadUsers: the word of the slice header line 214 has yet to write
  ops,         \* per request: the calls it made to the database, in order
  failed,      \* per request: the loadUsers failure that ended it ("" when none)
  respStatus,  \* per request: the status written to the client (0: none)
  respBody,    \* per request: the body written to the client
  respUsers,   \* getUsers: responseUsers when it was encoded
  rnow         \* getUsers: now

\* The state of the UserTable component in one browser (UserTable.js).
VARIABLES
  tableUsers,        \* useState: users, the list the component fetched
  loading,           \* useState: loading
  error,             \* useState: error ("" for null)
  sortConfig,        \* useState: sortConfig, [key, direction]
  searchQuery,       \* useState: searchQuery
  dateFilterColumn,  \* useState: dateFilterColumn
  dateRange,         \* useState: dateRange, [startDate, endDate]
  mfaFilter,         \* useState: mfaFilter
  tz,                \* the browser's time zone: local time minus UTC, in hours
  shown              \* useMemo: filteredAndSortedUsers as last rendered

\* The state of the add-user form of the component (part_000).
VARIABLES
  isAddUserModalOpen,  \* useState: isAddUserModalOpen
  newUser,             \* useState: newUser, the fields of the form
  addUserError,        \* useState: addUserError ("" for none)
  posts,               \* every POST handleAddUserSubmit has sent: its payload and its answer ("" while in flight)
  loadCalls,           \* history: the number of calls of loadUsers
  loadsPending         \* the calls of loadUsers whose fetch has not ended

back == <<phase, store, users, snaps, pc, req, rlen, rfirst, rlast, loaded, pend,
          ops,
          failed, respStatus, respBody, respUsers, rnow>>

front == <<tableUsers, loading, error, sortConfig, searchQuery, dateFilterColumn,
           dateRange, mfaFilter, tz, shown>>

form == <<isAddUserModalOpen, newUser, addUserError, posts, loadCalls, loadsPending>>

vars == <<back, front, form>>

server == <<phase, store, users, snaps>>

Request(m, body, fault) == [method |-> m, body |-> body, fault |-> fault]

NoReq == Request("", BadBody, "none")

\* A slice whose header is whole.
Slice(list) == [data |-> list, len |-> Len(list)]

\* The server before main runs.
BackInit ==
  /\ phase = "boot"
  /\ store \in InitStores
  /\ users = Slice(<<>>)
  /\ snaps = <<>>
  /\ pc = [h \in Reqs |-> "idle"]
  /\ req = [h \in Reqs |-> NoReq]
  /\ rlen = [h \in Reqs |-> 0]
  /\ rfirst = [h \in Reqs |-> 0]
  /\ rlast = [h \in Reqs |-> 0]
  /\ loaded = [h \in Reqs |-> <<>>]
  /\ pend = [h \in Reqs |-> ""]
  /\ ops = [h \in Reqs |-> <<>>]
  /\ failed = [h \in Reqs |-> ""]
  /\ respStatus = [h \in Reqs |-> 0]
  /\ respBody = [h \in Reqs |-> ""]
  /\ respUsers = [h \in Reqs |-> <<>>]
  /\ rnow = [h \in Reqs |-> 0]

\* The time zones of the browsers: west of UTC, UTC, east of it.
TimeZones == {-5, 0, 5}

\* The component as it mounts (lines 18-27): nothing fetched yet.
FrontInit ==
  /\ tableUsers = <<>>
  /\ loading = TRUE
  /\ error = ""
  /\ sortConfig = [key |-> "createDate", direction |-> "descending"]
  /\ searchQuery = <<>>
  /\ dateFilterColumn = "createDate"
  /\ dateRange = [startDate |-> <<>>, endDate |-> <<>>]
  /\ mfaFilter = <<"a","l","l">>
  /\ tz \in TimeZones
  /\ shown = <<>>

\* Lines 50-56 of part_000: initialNewUserState. today is the day of
\* new Date() in the browser, as formatDateForInput gives it (lines 28-34).
initialNewUserState ==
  LET today == <<"2","0","2","5","-","0","1","-","1","1">>
  IN [humanUser |-> <<>>,
      createDate |-> today,
      passwordChangedDate |-> today,
      lastAccessDate |-> today,
      mfaEnabled |-> <<"N","o">>]

\* The form as the component mounts (lines 49-58 of part_000); the effect of
\* lines 78-80 has called loadUsers once.
FormInit ==
  /\ isAddUserModalOpen = FALSE
  /\ newUser = initialNewUserState
  /\ addUserError = ""
  /\ posts = <<>>
  /\ loadCalls = 1
  /\ loadsPending = 1

\* The server starts; no browser acts.
Init == BackInit /\ FrontInit /\ tz = 0 /\ FormInit

(***************************************************************************)
(* usersHandler and the requests that end in it.                           *)
(***************************************************************************)
\* Variant of Route that passes every method but OPTIONS and GET to addUser.
Route_ElseIsAddUser(m) ==
  IF m = "OPTIONS" THEN "options"
  ELSE IF m = "GET" THEN "getUsers"
  ELSE "addUser"

\* The dispatch of usersHandler on r.Method.
Route(m) ==
  IF m = "OPTIONS" THEN "options"
  ELSE IF m = "GET" THEN "getUsers"
  ELSE IF m = "POST" THEN "addUser"
  ELSE "notAllowed"

\* A request is served once main listens. Requests take the slots in order;
\* their handlers then run concurrently.
Arrives(h) ==
  /\ phase = "serving"
  /\ pc[h] = "idle"
  /\ IF h = 1 THEN TRUE ELSE pc[h - 1] # "idle"

\* The handler of h writes status and body and returns.
Respond(h, status, body) ==
  /\ respStatus' = [respStatus EXCEPT ![h] = status]
  /\ respBody' = [respBody EXCEPT ![h] = body]
  /\ pc' = [pc EXCEPT ![h] = "done"]

\* usersHandler on OPTIONS (lines 224-227).
UsersHandlerOptions(h, m) ==
  /\ Arrives(h)
  /\ Route(m) = "options"
  /\ req' = [req EXCEPT ![h] = Request(m, BadBody, "none")]
  /\ Respond(h, 200, "")
  /\ UNCHANGED <<server, rlen, rfirst, rlast, loaded, pend, ops, failed, respUsers, rnow>>
  /\ UNCHANGED front
  /\ UNCHANGED form

\* usersHandler on a method it does not serve (lines 233-235).
UsersHandlerNotAllowed(h, m) ==
  /\ Arrives(h)
  /\ Route(m) = "notAllowed"
  /\ req' = [req EXCEPT ![h] = Request(m, BadBody, "none")]
  /\ Respond(h, 405, "Method not allowed")
  /\ UNCHANGED <<server, rlen, rfirst, rlast, loaded, pend, ops, failed, respUsers, rnow>>
  /\ UNCHANGED front
  /\ UNCHANGED form

(***************************************************************************)
(* getUsers. Lines 239 and 240 each read the global `users`, with no lock. *)
(***************************************************************************)
Min(a, b) == IF a <= b THEN a ELSE b

Max(a, b) == IF a >= b THEN a ELSE b

\* Line 239: make([]User, len(users)).
GetUsersLen(h, m) ==
  /\ Arrives(h)
  /\ Route(m) = "getUsers"
  /\ req' = [req EXCEPT ![h] = Request(m, BadBody, "none")]
  /\ rlen' = [rlen EXCEPT ![h] = users.len]
  /\ rfirst' = [rfirst EXCEPT ![h] =
        Max(1, Len(snaps) - Cardinality({g \in Reqs : pc[g] = "assign2"}))]
  /\ pc' = [pc EXCEPT ![h] = "copy"]
  /\ UNCHANGED <<server, rlast, loaded, pend, ops, failed, respStatus, respBody,
                 respUsers, rnow>>
  /\ UNCHANGED front
  /\ UNCHANGED form

\* Variant of CopyUsers that takes the records from the table as it is at
\* the time of the read.
CopyUsers_FromStore(n, src, fill) == ScanRows(store)

\* copy(responseUsers, users) at line 240: the first min(len(dst), len(src))
\* elements of the array of `users`; the rest of dst stays zero. An element
\* past the end of the array (a header read half-written) is whatever is there.
CopyUsers(n, src, fill) ==
  [i \in 1..n |->
     IF i <= Min(n, src.len)
       THEN (IF i <= Len(src.data) THEN src.data[i] ELSE fill)
       ELSE ZeroUser]

\* Lines 242-273: the loop that fills in the derived fields.
DeriveAll(now, us) == [i \in 1..Len(us) |-> DeriveUser(now, us[i])]

\* Variant of GetUsersCopy whose loop fills in the derived fields of the
\* records of `users` themselves, with no copy.
GetUsersCopy_InPlace(h, now, fill) ==
  /\ phase = "serving"
  /\ pc[h] = "copy"
  /\ LET responseUsers == DeriveAll(now, CopyUsers(rlen[h], users, fill))
     IN /\ respUsers' = [respUsers EXCEPT ![h] = responseUsers]
        /\ Respond(h, 200, EncodeUsers(responseUsers))
  /\ users' = [users EXCEPT !.data = DeriveAll(now, @)]
  /\ rnow' = [rnow EXCEPT ![h] = now]
  /\ rlast' = [rlast EXCEPT ![h] = Len(snaps)]
  /\ UNCHANGED <<phase, store, snaps, req, rlen, rfirst, loaded, pend, ops, failed>>
  /\ UNCHANGED front
  /\ UNCHANGED form

\* Lines 240-276: the copy, the loop, and the response.
GetUsersCopy(h, now, fill) ==
  /\ phase = "serving"
  /\ pc[h] = "copy"
  /\ LET responseUsers == DeriveAll(now, CopyUsers(rlen[h], users, fill))
     IN /\ respUsers' = [respUsers EXCEPT ![h] = responseUsers]
        /\ Respond(h, 200, EncodeUsers(responseUsers))
  /\ rnow' = [rnow EXCEPT ![h] = now]
  /\ rlast' = [rlast EXCEPT ![h] = Len(snaps)]
  /\ UNCHANGED <<server, req, rlen, rfirst, loaded, pend, ops, failed>>
  /\ UNCHANGED front
  /\ UNCHANGED form

(***************************************************************************)
(* addUser.                                                                *)
(***************************************************************************)
\* A field of InputUser after json.Decode: "" when the object has no such key.
Field(body, k) == IF k \in DOMAIN body.obj THEN body.obj[k] ELSE <<>>

\* Variant of HumanUserOk that lets every name through.
HumanUserOk_Any(name) == TRUE

\* Line 287: the check of HumanUser.
HumanUserOk(name) == name # <<>>

\* Variant of MfaSwitch that compares without lowering the case.
MfaSwitch_CaseSensitive(mfa) ==
  IF mfa = <<"y","e","s">> THEN [ok |-> TRUE, db |-> "true"]
  ELSE IF mfa = <<"n","o">> THEN [ok |-> TRUE, db |-> "false"]
  ELSE [ok |-> FALSE, db |-> "false"]

\* Lines 293-301: the switch on strings.ToLower(newUser.MFAEnabled);
\* ok is FALSE in its default case.
MfaSwitch(mfa) ==
  IF ToLower(mfa) = <<"y","e","s">> THEN [ok |-> TRUE, db |-> "true"]
  ELSE IF ToLower(mfa) = <<"n","o">> THEN [ok |-> TRUE, db |-> "false"]
  ELSE [ok |-> FALSE, db |-> "false"]

\* Variant of ExecRow with two of the date arguments in each other's place.
ExecRow_DatesSwapped(body) ==
  Row(Field(body, "humanUser"),
      NullString(Field(body, "passwordChangedDate")),
      NullString(Field(body, "createDate")),
      NullString(Field(body, "lastAccessDate")),
      MfaSwitch(Field(body, "mfaEnabled")).db)

\* Variant of ExecRow that passes false for mfa_enabled whatever was
\* submitted.
ExecRow_MfaFalse(body) ==
  Row(Field(body, "humanUser"),
      NullString(Field(body, "createDate")),
      NullString(Field(body, "passwordChangedDate")),
      NullString(Field(body, "lastAccessDate")),
      "false")

\* The arguments of stmt.Exec at line 311, as the row they insert.
ExecRow(body) ==
  Row(Field(body, "humanUser"),
      NullString(Field(body, "createDate")),
      NullString(Field(body, "passwordChangedDate")),
      NullString(Field(body, "lastAccessDate")),
      MfaSwitch(Field(body, "mfaEnabled")).db)

\* Variant of KeyExists for a table without the key.
KeyExists_Never(rows, name) == FALSE

\* human_user is the PRIMARY KEY of users_table (line 137).
KeyExists(rows, name) == \E i \in 1..Len(rows) : rows[i].human_user = name

\* Variant of PrepareFails in which no error of Prepare is seen.
PrepareFails_Never(fault) == FALSE

\* db.Prepare at line 303 returns an error.
PrepareFails(fault) == fault = "prepare"

\* Variant of ExecFails in which no error of Exec is seen.
ExecFails_Never(fault, rows, name) == FALSE

\* Variant of ExecFails for an INSERT that takes a key that exists.
ExecFails_FaultOnly(fault, rows, name) == fault = "exec"

\* stmt.Exec at line 311 returns an error: the database fails, or the key is
\* in the table already.
ExecFails(fault, rows, name) == fault = "exec" \/ KeyExists(rows, name)

NoRow == Row(<<>>, SqlNull, SqlNull, SqlNull, "null")

DbCall(op, row) == [op |-> op, row |-> row]

\* Lines 280-301 of addUser, as [status, body]: the response it gives there
\* (status 0: none, it goes on to the insert).
ValidateOutcome(body) ==
  IF ~body.ok
    THEN [status |-> 400, body |-> "Invalid request body"]
  ELSE IF ~HumanUserOk(Field(body, "humanUser"))
    THEN [status |-> 400, body |-> "HumanUser cannot be empty"]
  ELSE IF ~MfaSwitch(Field(body, "mfaEnabled")).ok
    THEN [status |-> 400, body |-> "MFAEnabled must be 'Yes' or 'No'"]
  ELSE [status |-> 0, body |-> ""]

\* Lines 303-316 of addUser, as [status, body, calls, insert]: the response it
\* gives there (status 0: none, it goes on to loadUsers), the calls it has made
\* to the database, and whether the row is now in the table.
InsertOutcome(body, fault, rows) ==
  IF PrepareFails(fault)
    THEN [status |-> 500, body |-> "Failed to add user",
          calls |-> <<DbCall("prepare", NoRow)>>, insert |-> FALSE]
  ELSE IF ExecFails(fault, rows, Field(body, "humanUser"))
    THEN [status |-> 500, body |-> "Failed to add user to database",
          calls |-> <<DbCall("prepare", NoRow), DbCall("exec", ExecRow(body))>>,
          insert |-> FALSE]
  ELSE [status |-> 0, body |-> "",
        calls |-> <<DbCall("prepare", NoRow), DbCall("exec", ExecRow(body))>>,
        insert |-> TRUE]

\* Lines 280-301: decode the body and validate it.
AddUser(h, m, body) ==
  /\ Arrives(h)
  /\ Route(m) = "addUser"
  /\ req' = [req EXCEPT ![h] = Request(m, body, "none")]
  /\ LET out == ValidateOutcome(body)
     IN IF out.status = 0
          THEN /\ pc' = [pc EXCEPT ![h] = "insert"]
               /\ UNCHANGED <<respStatus, respBody>>
          ELSE Respond(h, out.status, out.body)
  /\ UNCHANGED <<server, rlen, rfirst, rlast, loaded, pend, ops, failed,
                 respUsers, rnow>>
  /\ UNCHANGED front
  /\ UNCHANGED form

\* Lines 303-316: prepare and execute the INSERT.
AddUserInsert(h, fault) ==
  /\ phase = "serving"
  /\ pc[h] = "insert"
  /\ req' = [req EXCEPT ![h].fault = fault]
  /\ LET out == InsertOutcome(req[h].body, fault, store)
     IN /\ ops' = [ops EXCEPT ![h] = out.calls]
        /\ store' = IF out.insert THEN Append(store, ExecRow(req[h].body)) ELSE store
        /\ IF out.status = 0
             THEN /\ pc' = [pc EXCEPT ![h] = "query"]
                  /\ UNCHANGED <<respStatus, respBody>>
             ELSE Respond(h, out.status, out.body)
  /\ UNCHANGED <<phase, users, snaps, rlen, rfirst, rlast, loaded, pend, failed,
                 respUsers, rnow>>
  /\ UNCHANGED front
  /\ UNCHANGED form

(***************************************************************************)
(* loadUsers, called by addUser at line 318 and by main at line 329.       *)
(***************************************************************************)
\* Lines 170-213 in a handler: the query and the loop over its rows. A failed
\* query, and an error while the rows are read, end in log.Fatalf: the process
\* exits, and no handler of it goes on.
LoadUsersQuery(h, fault) ==
  /\ phase = "serving"
  /\ pc[h] = "query"
  /\ ops' = [ops EXCEPT ![h] = Append(@, DbCall("query", NoRow))]
  /\ IF fault # "none"
       THEN /\ phase' = "exited"
            /\ failed' = [failed EXCEPT ![h] = fault]
            /\ pc' = [pc EXCEPT ![h] = "killed"]
            /\ UNCHANGED loaded
       ELSE /\ loaded' = [loaded EXCEPT ![h] = ScanRows(store)]
            /\ pc' = [pc EXCEPT ![h] = "assign"]
            /\ UNCHANGED <<phase, failed>>
  /\ UNCHANGED <<store, users, snaps, req, rlen, rfirst, rlast, pend, respStatus,
                 respBody, respUsers, rnow>>
  /\ UNCHANGED front
  /\ UNCHANGED form

\* The slice header with one of its words taken from list.
WithWord(hdr, w, list) ==
  IF w = "data" THEN [hdr EXCEPT !.data = list] ELSE [hdr EXCEPT !.len = Len(list)]

OtherWord(w) == IF w = "data" THEN "len" ELSE "data"

\* Line 214, users = loadedUsers, in a handler: the store of a slice header is
\* one store per word, and no lock keeps other handlers from running between
\* them. This is the first word, w.
LoadUsersAssign(h, w) ==
  /\ phase = "serving"
  /\ pc[h] = "assign"
  /\ users' = WithWord(users, w, loaded[h])
  /\ snaps' = Append(snaps, loaded[h])
  /\ pend' = [pend EXCEPT ![h] = OtherWord(w)]
  /\ pc' = [pc EXCEPT ![h] = "assign2"]
  /\ UNCHANGED <<phase, store, req, rlen, rfirst, rlast, loaded, ops, failed,
                 respStatus, respBody, respUsers, rnow>>
  /\ UNCHANGED front
  /\ UNCHANGED form

\* The rest of line 214, and lines 320-322 of addUser: 201 and the message.
LoadUsersAssigned(h) ==
  /\ phase = "serving"
  /\ pc[h] = "assign2"
  /\ users' = WithWord(users, pend[h], loaded[h])
  /\ pend' = [pend EXCEPT ![h] = ""]
  /\ Respond(h, 201, [message |-> "User added successfully"])
  /\ UNCHANGED <<phase, store, snaps, req, rlen, rfirst, rlast, loaded, ops, failed,
                 respUsers, rnow>>
  /\ UNCHANGED front
  /\ UNCHANGED form

\* Variant of MainLoadUsers in which a failed load is logged and main goes on
\* to listen.
MainLoadUsers_ServesAnyway(fault) ==
  /\ phase = "boot"
  /\ IF fault # "none"
       THEN UNCHANGED <<users, snaps>>
       ELSE /\ users' = Slice(ScanRows(store))
            /\ snaps' = Append(snaps, ScanRows(store))
  /\ phase' = "serving"
  /\ UNCHANGED <<store, pc, req, rlen, rfirst, rlast, loaded, pend, ops, failed,
                 respStatus, respBody, respUsers, rnow>>
  /\ UNCHANGED front
  /\ UNCHANGED form

\* main, lines 329-336: the first loadUsers, alone in the process, and then
\* ListenAndServe; log.Fatalf ends the process before it listens.
MainLoadUsers(fault) ==
  /\ phase = "boot"
  /\ IF fault # "none"
       THEN /\ phase' = "exited"
            /\ UNCHANGED <<users, snaps>>
       ELSE /\ users' = Slice(ScanRows(store))
            /\ snaps' = Append(snaps, ScanRows(store))
            /\ phase' = "serving"
  /\ UNCHANGED <<store, pc, req, rlen, rfirst, rlast, loaded, pend, ops, failed,
                 respStatus, respBody, respUsers, rnow>>
  /\ UNCHANGED front
  /\ UNCHANGED form

Next ==
  \/ \E fault \in QueryFaults : MainLoadUsers(fault)
  \/ \E h \in Reqs, m \in Methods : UsersHandlerOptions(h, m)
  \/ \E h \in Reqs, m \in Methods : UsersHandlerNotAllowed(h, m)
  \/ \E h \in Reqs, m \in Methods : GetUsersLen(h, m)
  \/ \E h \in Reqs, now \in Nows, fill \in Fillers : GetUsersCopy(h, now, fill)
  \/ \E h \in Reqs, m \in Methods, body \in Bodies : AddUser(h, m, body)
  \/ \E h \in Reqs, fault \in DbFaults : AddUserInsert(h, fault)
  \/ \E h \in Reqs, fault \in QueryFaults : LoadUsersQuery(h, fault)
  \/ \E h \in Reqs, w \in {"data", "len"} : LoadUsersAssign(h, w)
  \/ \E h \in Reqs : LoadUsersAssigned(h)

Spec == Init /\ [][Next]_vars

(***************************************************************************)
(* The claims.                                                             *)
(***************************************************************************)
\* A read that has answered.
ReadDone(h) == req[h].method = "GET" /\ pc[h] = "done"

\* The records a read returned, without the fields it derived.
ReadList(h) ==
  [i \in 1..Len(respUsers[h]) |->
     [respUsers[h][i] EXCEPT !.DaysSinceLastPasswordChange = 0,
                             !.DaysSinceLastAccess = 0]]

\* C1: a read that runs while loadUsers assigns a new list returns exactly the
\* list that was published when it began or exactly one assigned while it
\* ran: never a list with the length of one and the records of another.
C1_ReadIsOneSnapshot ==
  \A h \in Reqs :
    ReadDone(h) => \E i \in rfirst[h]..rlast[h] : snaps[i] = ReadList(h)

\* C2: when the loadUsers that follows a successful insert fails, the server
\* keeps serving and the published list stays as it was.
C2_RefreshFailureNotFatal ==
  \A h \in Reqs :
    failed[h] # "" =>
      /\ phase = "serving"
      /\ \E i \in 1..Len(snaps) : users = Slice(snaps[i])

\* C3: when the insert succeeded and the loadUsers after it fails, the POST is
\* answered with an error status: never 201, and never no response at all.
C3_RefreshFailureReported ==
  \A h \in Reqs : failed[h] # "" => respStatus[h] >= 400

(***************************************************************************)
(* addUser: validation, persistence, order of the steps (C4 to C7).        *)
(***************************************************************************)
\* A POST whose body decoded, past its arrival.
PostOf(h) == req[h].method = "POST" /\ req[h].body.ok /\ pc[h] # "idle"

\* The step in which the handler of h takes up its request.
Taken(h) == pc[h] = "idle" /\ pc'[h] # "idle"

HumanUserOf(h) == Field(req[h].body, "humanUser")

MfaOf(h) == Field(req[h].body, "mfaEnabled")

\* a and b are the same character, or the two cases of one letter.
SameLetter(a, b) ==
  \/ a = b
  \/ \E k \in 1..26 : {a, b} = {UpperLetters[k], LowerLetters[k]}

\* s and t are equal when the case of letters is ignored.
EqualFold(s, t) ==
  /\ Len(s) = Len(t)
  /\ \A i \in 1..Len(s) : SameLetter(s[i], t[i])

IsYes(mfa) == EqualFold(mfa, <<"y","e","s">>)

IsNo(mfa) == EqualFold(mfa, <<"n","o">>)

\* h has made no call to the database.
NoDbCall(h) == ops[h] = <<>>

\* h has not called loadUsers.
NoReload(h) == \A k \in 1..Len(ops[h]) : ops[h][k].op # "query"

\* C4: a POST with an empty humanUser is answered 400; it issues no insert and
\* no reload, and the step that rejects it leaves the store and the cached
\* list, hence what a later read returns, as they were.
C4_EmptyHumanUserRejected ==
  [][\A h \in Reqs :
       /\ (PostOf(h) /\ HumanUserOf(h) = <<>>)' =>
            (pc[h] = "done" /\ respStatus[h] = 400 /\ NoDbCall(h))'
       /\ (Taken(h) /\ (PostOf(h) /\ HumanUserOf(h) = <<>>)') =>
            UNCHANGED <<store, users, snaps, loaded>>]_vars

C4_Witness ==
  \E h \in Reqs :
    /\ PostOf(h) /\ HumanUserOf(h) = <<>>
    /\ pc[h] = "done" /\ respStatus[h] = 400
    /\ users.data # <<>>

\* C5: a POST with a non-empty humanUser goes on to the insert exactly when
\* its mfaEnabled is "yes" or "no" in any case of letters; any other value is
\* answered 400 with no insert, no reload and the cached list unchanged.
C5_MfaValidated ==
  [][\A h \in Reqs :
       (PostOf(h) /\ HumanUserOf(h) # <<>>)' =>
         IF IsYes(MfaOf(h)') \/ IsNo(MfaOf(h)')
           THEN Taken(h) => (pc[h] = "insert" /\ respStatus[h] = 0)'
           ELSE /\ (pc[h] = "done" /\ respStatus[h] = 400 /\ NoDbCall(h))'
                /\ Taken(h) => UNCHANGED <<store, users, snaps, loaded>>]_vars

C5_Witness ==
  \E h, g \in Reqs :
    /\ PostOf(h) /\ HumanUserOf(h) # <<>>
    /\ IsYes(MfaOf(h)) /\ MfaOf(h) # <<"y","e","s">>
    /\ ~NoDbCall(h)
    /\ PostOf(g) /\ HumanUserOf(g) # <<>>
    /\ ~IsYes(MfaOf(g)) /\ ~IsNo(MfaOf(g))
    /\ respStatus[g] = 400

\* The step in which h prepares and executes its INSERT.
Inserts(h) == pc[h] = "insert" /\ pc'[h] # "insert"

\* The table has a row with the key of the record h submits.
DuplicateKey(h) == \E i \in 1..Len(store) : store[i].human_user = HumanUserOf(h)

\* C6: when the prepare or the exec of the insert fails, the POST is answered
\* with a server error, loadUsers is not called, and the store and the cached
\* list are left as they were.
C6_InsertFailure ==
  [][\A h \in Reqs :
       (Inserts(h) /\ (req'[h].fault \in {"prepare", "exec"} \/ DuplicateKey(h))) =>
         /\ (pc[h] = "done" /\ respStatus[h] = 500 /\ NoReload(h))'
         /\ UNCHANGED <<store, users, snaps, loaded>>]_vars

C6_Witness ==
  \E h, g \in Reqs :
    /\ req[h].fault = "exec" /\ respStatus[h] = 500 /\ pc[h] = "done"
    /\ req[g].fault = "none" /\ respStatus[g] = 500 /\ pc[g] = "done"

\* The row a POST submits, its MFA value as the boolean of the table.
SubmittedRow(h) ==
  [human_user |-> HumanUserOf(h),
   create_date |-> [Valid |-> TRUE, String |-> Field(req[h].body, "createDate")],
   password_changed_date |->
     [Valid |-> TRUE, String |-> Field(req[h].body, "passwordChangedDate")],
   last_access_date |->
     [Valid |-> TRUE, String |-> Field(req[h].body, "lastAccessDate")],
   mfa_enabled |-> IF IsYes(MfaOf(h)) THEN "true" ELSE "false"]

\* C7: a POST answered 201 has made exactly one insert, of the submitted
\* fields with MFA as a boolean, and after it exactly one reload, whose list
\* was assigned to the cache before the answer, and it carries the message
\* "User added successfully"; no POST reloads before it has inserted.
C7_InsertThenReloadThenAnswer ==
  \A h \in Reqs :
    /\ respStatus[h] = 201 =>
         /\ Len(ops[h]) = 3
         /\ ops[h][1].op = "prepare"
         /\ ops[h][2].op = "exec" /\ ops[h][2].row = SubmittedRow(h)
         /\ ops[h][3].op = "query"
         /\ \E i \in 1..Len(store) : store[i] = SubmittedRow(h)
         /\ \E i \in 1..Len(snaps) : snaps[i] = loaded[h]
         /\ \E i \in 1..Len(loaded[h]) : loaded[h][i].HumanUser = HumanUserOf(h)
         /\ respBody[h].message = "User added successfully"
    /\ \A k \in 1..Len(ops[h]) :
         ops[h][k].op = "query" =>
           /\ k = 3 /\ ops[h][2].op = "exec"
           /\ \E i \in 1..Len(store) : store[i] = SubmittedRow(h)
    /\ pc[h] \in {"query", "assign", "assign2"} => respStatus[h] = 0

C7_Witness ==
  \E h \in Reqs :
    /\ respStatus[h] = 201
    /\ Field(req[h].body, "createDate") # Field(req[h].body, "passwordChangedDate")

(***************************************************************************)
(* getUsers: the derived fields (C8 to C10).                               *)
(***************************************************************************)
DerivedKeys == {"daysSinceLastPasswordChange", "daysSinceLastAccess"}

\* The date a derived field is computed from, and the field, in a record.
SourceDate(u, f) ==
  IF f = "daysSinceLastPasswordChange" THEN u.PasswordChangedDate ELSE u.LastAccessDate

DerivedValue(u, f) ==
  IF f = "daysSinceLastPasswordChange"
    THEN u.DaysSinceLastPasswordChange ELSE u.DaysSinceLastAccess

\* The date is empty or not in the layout "Jan 2 2006".
NoDate(date) == date = <<>> \/ ~Parse(date).ok

\* The hours from a date to now, kept within the range of a Duration.
Elapsed(now, date) ==
  LET d == now - Parse(date).hours
  IN Max(-MaxDurationHours, Min(MaxDurationHours, d))

\* q is d hours in whole days, the fraction of a day dropped: toward zero.
IsTruncatedDays(d, q) ==
  IF d >= 0 THEN 24 * q <= d /\ d < 24 * (q + 1)
  ELSE 24 * (q - 1) < d /\ d <= 24 * q

\* The records of the read h and their derived fields.
FieldsOf(h) == (1..Len(respUsers[h])) \X DerivedKeys

\* C8: in a read, a derived field whose date is empty or does not parse is -1
\* in the response, and the read goes on: it returns as many records as it
\* set out to, and every field with a date that parses holds its day count,
\* in the same record and in the others.
C8_BadDateIsMinusOne ==
  \A h \in Reqs :
    ReadDone(h) =>
      /\ Len(respUsers[h]) = rlen[h]
      /\ Len(respBody[h]) = rlen[h]
      /\ \A x \in FieldsOf(h) :
           LET u == respUsers[h][x[1]]
               json == respBody[h][x[1]]
           IN IF NoDate(SourceDate(u, x[2]))
                THEN x[2] \in DOMAIN json /\ json[x[2]] = -1
                ELSE /\ IsTruncatedDays(Elapsed(rnow[h], SourceDate(u, x[2])),
                                        DerivedValue(u, x[2]))
                     /\ x[2] \in DOMAIN json => json[x[2]] = DerivedValue(u, x[2])

C8_Witness ==
  \E h \in Reqs :
    /\ ReadDone(h)
    /\ Len(respUsers[h]) >= 2
    /\ \E i \in 1..Len(respUsers[h]) :
         /\ respUsers[h][i].PasswordChangedDate = dIso
         /\ DerivedKeys \subseteq DOMAIN respBody[h][i]
         /\ respBody[h][i]["daysSinceLastPasswordChange"] = -1
         /\ respBody[h][i]["daysSinceLastAccess"] = 10

\* C9, as stated: for a date that parses, the day count is the floor of
\* (now - date) / 24h, also when the date is after now.
C9_FloorOfQuotient ==
  \A h \in Reqs :
    ReadDone(h) =>
      \A x \in FieldsOf(h) :
        LET u == respUsers[h][x[1]]
        IN ~NoDate(SourceDate(u, x[2])) =>
             DerivedValue(u, x[2]) =
               (rnow[h] - Parse(SourceDate(u, x[2])).hours) \div 24

\* C9, amended: for a date that parses, the day count is (now - date) / 24h
\* with the fraction dropped toward zero, the difference first kept within
\* the range of a Duration: the floor for a date before now, the ceiling for
\* one after it (a date 12 hours after now gives 0).
C9_TruncatedQuotient ==
  \A h \in Reqs :
    ReadDone(h) =>
      \A x \in FieldsOf(h) :
        LET u == respUsers[h][x[1]]
        IN ~NoDate(SourceDate(u, x[2])) =>
             IsTruncatedDays(Elapsed(rnow[h], SourceDate(u, x[2])),
                             DerivedValue(u, x[2]))

C9_Witness ==
  \E h \in Reqs :
    /\ ReadDone(h)
    /\ \E x \in FieldsOf(h) :
         LET u == respUsers[h][x[1]]
         IN /\ ~NoDate(SourceDate(u, x[2]))
            /\ Parse(SourceDate(u, x[2])).hours - rnow[h] = 12
            /\ DerivedValue(u, x[2]) = 0

\* C10: in the response of a read, a derived field is -1 or not negative, and
\* it is -1 only when its date is empty or does not parse.
C10_MinusOneOrNonNegative ==
  \A h \in Reqs :
    ReadDone(h) =>
      \A x \in FieldsOf(h) :
        LET u == respUsers[h][x[1]]
            json == respBody[h][x[1]]
        IN x[2] \in DOMAIN json =>
             /\ json[x[2]] >= -1
             /\ json[x[2]] = -1 => NoDate(SourceDate(u, x[2]))

\* The keys of a record object: the stored fields and the derived ones.
StoredKeys ==
  {"humanUser", "createDate", "passwordChangedDate", "lastAccessDate", "mfaEnabled"}

\* C11: every record object of a read response has the stored fields and both
\* derived fields, also when a derived value is 0 or a stored date is empty.
C11_AllFieldsPresent ==
  \A h \in Reqs :
    ReadDone(h) =>
      \A i \in 1..Len(respUsers[h]) :
        StoredKeys \cup DerivedKeys \subseteq DOMAIN respBody[h][i]

(***************************************************************************)
(* The UserTable component (src/frontend/src/UserTable.js): the list it    *)
(* fetched, its filter and sort state, and the list it renders. Instants   *)
(* are whole hours since the epoch, as above; a time zone is a whole       *)
(* number of hours, with no daylight saving.                               *)
(***************************************************************************)
\* columnsConfig (lines 5-13).
columnsConfig ==
  << [key |-> "humanUser", type |-> "string", searchable |-> TRUE],
     [key |-> "createDate", type |-> "date", searchable |-> FALSE],
     [key |-> "passwordChangedDate", type |-> "date", searchable |-> FALSE],
     [key |-> "daysSinceLastPasswordChange", type |-> "number", searchable |-> FALSE],
     [key |-> "lastAccessDate", type |-> "date", searchable |-> FALSE],
     [key |-> "daysSinceLastAccess", type |-> "number", searchable |-> FALSE],
     [key |-> "mfaEnabled", type |-> "string", searchable |-> TRUE] >>

Columns == {columnsConfig[i] : i \in 1..Len(columnsConfig)}

ColumnKeys == {c.key : c \in Columns}

\* dateColumns (line 15).
dateColumns == {c \in Columns : c.type = "date"}

\* columnsConfig.find(col => col.key === key).
ColumnOf(key) == CHOOSE c \in Columns : c.key = key

\* String(undefined).
UndefinedString == <<"u","n","d","e","f","i","n","e","d">>

\* String(user[key]) for a column of strings: the field, or "undefined" for a
\* key the object does not have.
JsString(user, key) == IF key \in DOMAIN user THEN user[key] ELSE UndefinedString

\* Number(user[key]) for a column of numbers: NaN for a key the object does
\* not have.
JsNumber(user, key) ==
  IF key \in DOMAIN user THEN [nan |-> FALSE, n |-> user[key]] ELSE [nan |-> TRUE, n |-> 0]

\* The number written by the two digits of value at i and i + 1.
TwoDigits(value, i) == 10 * DigitVal(value[i]) + DigitVal(value[i + 1])

\* Date.parse of the date-only form YYYY-MM-DD: midnight UTC of that day.
IsoParse(value) ==
  IF /\ Len(value) = 10
     /\ value[5] = "-" /\ value[8] = "-"
     /\ \A i \in {1, 2, 3, 4, 6, 7, 9, 10} : value[i] \in DigitSet
    THEN LET y == 100 * TwoDigits(value, 1) + TwoDigits(value, 3)
             m == TwoDigits(value, 6)
             d == TwoDigits(value, 9)
         IN IF m \in 1..12 /\ d >= 1 /\ d <= daysIn(m, y)
              THEN [ok |-> TRUE, hours |-> 24 * DaysFromCivil(y, m, d)]
              ELSE ParseFail
    ELSE ParseFail

\* new Date(value) for a string: the date-only form is UTC; a date of the form
\* "Jan 2 2006" is midnight of that day in the browser's zone; anything else
\* here is an Invalid Date (ok is FALSE: getTime() is NaN).
DateParse(value, zone) ==
  LET iso == IsoParse(value)
      text == Parse(value)
  IN IF iso.ok THEN iso
     ELSE IF text.ok THEN [ok |-> TRUE, hours |-> text.hours - zone]
     ELSE ParseFail

\* The date strings of the runs, and what new Date makes of them, computed
\* once.
KnownDates ==
  {<<>>, dJan1, dJan11, dIso, dOld, <<"J","a","n"," ","9"," ","2","0","2","5">>, <<"J","a","n"," ","1","0"," ","2","0","2","5">>, <<"n","/","a">>, <<"2","0","2","5","-","0","1","-","1","0">>}

DateParsed == [value \in KnownDates |-> [zone \in TimeZones |-> DateParse(value, zone)]]

JsDate(value, zone) ==
  IF value \in KnownDates /\ zone \in TimeZones
    THEN DateParsed[value][zone]
    ELSE DateParse(value, zone)

\* new Date(user[key]): Invalid Date for a key the object does not have.
JsDateOf(user, key, zone) ==
  IF key \in DOMAIN user THEN JsDate(user[key], zone) ELSE ParseFail

\* date.setHours(h, ...): the hour h of the local day the instant is in.
SetHours(date, h, zone) ==
  IF date.ok
    THEN LET local == date.hours + zone
         IN [ok |-> TRUE, hours |-> local - (local % 24) + h - zone]
    ELSE date

\* s.includes(t).
Includes(s, t) ==
  \E i \in 0..(Len(s) - Len(t)) : SubSeq(s, i + 1, i + Len(t)) = t

\* Variant of SearchKeeps that compares without lowering the case.
SearchKeeps_CaseSensitive(user, query) ==
  \E i \in 1..Len(columnsConfig) :
    /\ columnsConfig[i].searchable
    /\ Includes(JsString(user, columnsConfig[i].key), query)

\* Lines 55-61: some searchable column of user has the query in it.
SearchKeeps(user, query) ==
  \E i \in 1..Len(columnsConfig) :
    /\ columnsConfig[i].searchable
    /\ Includes(ToLower(JsString(user, columnsConfig[i].key)), ToLower(query))

\* Variant of SearchStage that applies the filter to an empty query too, which
\* no record passes.
SearchStage_DropsOnEmpty(list, query) ==
  SelectSeq(list, LAMBDA user : query # <<>> /\ SearchKeeps(user, query))

\* Lines 53-63: the search filter.
SearchStage(list, query) ==
  IF query # <<>> THEN SelectSeq(list, LAMBDA user : SearchKeeps(user, query)) ELSE list

\* A bound of the range that is not set (null).
NoBound == [set |-> FALSE, ok |-> FALSE, hours |-> 0]

\* Lines 68-72: start and end.
StartBound(range, zone) ==
  IF range.startDate # <<>>
    THEN [set |-> TRUE] @@ SetHours(JsDate(range.startDate, zone), 0, zone)
    ELSE NoBound

EndBound(range, zone) ==
  IF range.endDate # <<>>
    THEN [set |-> TRUE] @@ SetHours(JsDate(range.endDate, zone), 23, zone)
    ELSE NoBound

\* Variant of DateKeeps that lets a record with no date, or one that is not
\* a date, through.
DateKeeps_KeepsMissing(user, column, start, end, zone) ==
  IF column \notin DOMAIN user THEN TRUE
  ELSE LET userDate == JsDate(user[column], zone)
       IN IF ~userDate.ok THEN TRUE
          ELSE IF start.set /\ start.ok /\ userDate.hours < start.hours THEN FALSE
          ELSE IF end.set /\ end.ok /\ userDate.hours > end.hours THEN FALSE
          ELSE TRUE

\* Lines 75-86: the test of one record; a comparison with an Invalid Date is
\* false.
DateKeeps(user, column, start, end, zone) ==
  IF column \notin DOMAIN user \/ JsString(user, column) = <<>> THEN FALSE
  ELSE LET userDate == JsDate(user[column], zone)
       IN IF ~userDate.ok THEN FALSE
          ELSE IF start.set /\ start.ok /\ userDate.hours < start.hours THEN FALSE
          ELSE IF end.set /\ end.ok /\ userDate.hours > end.hours THEN FALSE
          ELSE TRUE

\* Lines 66-92: the date range filter.
DateStage(list, column, range, zone) ==
  IF column # "" /\ (range.startDate # <<>> \/ range.endDate # <<>>)
    THEN SelectSeq(list, LAMBDA user :
           DateKeeps(user, column, StartBound(range, zone), EndBound(range, zone), zone))
    ELSE list

\* Variant of MfaStage that takes "all" for a value of the column like any
\* other.
MfaStage_NoSentinel(list, filter) ==
  SelectSeq(list, LAMBDA user : JsString(user, "mfaEnabled") = filter)

\* Lines 95-97: the MFA filter.
MfaStage(list, filter) ==
  IF filter # <<"a","l","l">>
    THEN SelectSeq(list, LAMBDA user : JsString(user, "mfaEnabled") = filter)
    ELSE list

Sign(n) == IF n < 0 THEN -1 ELSE IF n > 0 THEN 1 ELSE 0

\* The rank of a character in the collation of localeCompare: space, digits,
\* letters; the two cases of a letter have one rank.
CollationOrder == <<" ">> \o Digits \o LowerLetters

RankOfChar ==
  [c \in {CollationOrder[i] : i \in 1..Len(CollationOrder)} |-> IndexOf(c, CollationOrder)]

CharRank(c) == RankOfChar[LowerChar(c)]

\* The first position at which s and t differ, 0 when there is none.
FirstDifference(s, t) ==
  LET n == Min(Len(s), Len(t))
      D == {i \in 1..n : s[i] # t[i]}
  IN IF D = {} THEN 0 ELSE CHOOSE i \in D : \A j \in D : i <= j

RECURSIVE CompareRanks(_, _)
CompareRanks(s, t) ==
  IF s = <<>> /\ t = <<>> THEN 0
  ELSE IF s = <<>> THEN -1
  ELSE IF t = <<>> THEN 1
  ELSE IF CharRank(Head(s)) # CharRank(Head(t))
    THEN Sign(CharRank(Head(s)) - CharRank(Head(t)))
  ELSE CompareRanks(Tail(s), Tail(t))

\* s.localeCompare(t), as its sign: by letters first, and between strings of
\* the same letters the lower case first.
localeCompare(s, t) ==
  LET byLetters == CompareRanks(s, t)
      i == FirstDifference(s, t)
  IN IF byLetters # 0 THEN byLetters
     ELSE IF i = 0 THEN 0
     ELSE IF s[i] \in UpperSet THEN 1 ELSE -1

\* What the comparator makes of a[sortConfig.key] (lines 110, 114, 124): the
\* Number, the Date or the String, by the type of the column.
SortKey(user, key, type, zone) ==
  IF type = "number" THEN JsNumber(user, key)
  ELSE IF type = "date" THEN JsDateOf(user, key, zone)
  ELSE [s |-> JsString(user, key)]

\* Lines 108-126: comparison, as the sign that sort reads from it (NaN reads
\* as 0).
CompareKeys(x, y, type) ==
  IF type = "number"
    THEN IF x.nan \/ y.nan THEN 0 ELSE Sign(x.n - y.n)
  ELSE IF type = "date"
    THEN IF ~x.ok /\ ~y.ok THEN 0
         ELSE IF ~x.ok THEN 1
         ELSE IF ~y.ok THEN -1
         ELSE Sign(x.hours - y.hours)
  ELSE localeCompare(x.s, y.s)

\* Line 128: the value the comparator returns.
Directed(comparison, direction) ==
  IF direction = "ascending" THEN comparison ELSE comparison * (-1)

\* Lines 102-129: the comparator handed to sort.
Compare(a, b, config, zone) ==
  LET type == ColumnOf(config.key).type
  IN Directed(CompareKeys(SortKey(a, config.key, type, zone),
                          SortKey(b, config.key, type, zone), type),
              config.direction)

\* The sort keys of the elements of list, in order.
RECURSIVE SortKeys(_, _, _, _)
SortKeys(list, key, type, zone) ==
  IF Len(list) = 0 THEN <<>>
  ELSE Append(SortKeys(SubSeq(list, 1, Len(list) - 1), key, type, zone),
              SortKey(list[Len(list)], key, type, zone))

\* What the comparator returns for the element at i and those at 1..n.
RECURSIVE SignRow(_, _, _, _, _)
SignRow(i, n, keys, type, direction) ==
  IF n = 0 THEN <<>>
  ELSE Append(SignRow(i, n - 1, keys, type, direction),
              Directed(CompareKeys(keys[i], keys[n], type), direction))

\* What the comparator returns for every two elements: c[i][j] for those at
\* i and j.
RECURSIVE SignMatrix(_, _, _, _)
SignMatrix(m, keys, type, direction) ==
  IF m = 0 THEN <<>>
  ELSE Append(SignMatrix(m - 1, keys, type, direction),
              SignRow(m, Len(keys), keys, type, direction))

\* The signs c are those of a strict weak order.
IsStrictWeakOrder(c) ==
  LET N == 1..Len(c)
  IN /\ \A i \in N : c[i][i] = 0
     /\ \A i, j \in N : c[i][j] = -c[j][i]
     /\ \A i, j, k \in N :
          /\ (c[i][j] = 0 /\ c[j][k] = 0) => c[i][k] = 0
          /\ (c[i][j] < 0 /\ c[j][k] < 0) => c[i][k] < 0
          /\ (c[i][j] < 0 /\ c[j][k] = 0) => c[i][k] < 0
          /\ (c[i][j] = 0 /\ c[j][k] < 0) => c[i][k] < 0

\* The comparator is a consistent comparison function for elements with
\* these keys (ECMAScript, Array.prototype.sort).
Consistent(keys, type, direction) ==
  IsStrictWeakOrder(SignMatrix(Len(keys), keys, type, direction))

\* The position x is put at in a sorted sequence of positions: after those
\* whose element it is not less than.
RECURSIVE InsertSorted(_, _, _, _, _)
InsertSorted(x, sorted, keys, type, direction) ==
  IF sorted = <<>> THEN <<x>>
  ELSE IF Directed(CompareKeys(keys[x], keys[sorted[Len(sorted)]], type), direction) < 0
    THEN Append(InsertSorted(x, SubSeq(sorted, 1, Len(sorted) - 1), keys, type, direction),
                sorted[Len(sorted)])
  ELSE Append(sorted, x)

\* The stable sort of the positions 1..n by the comparator.
RECURSIVE StableSort(_, _, _, _)
StableSort(n, keys, type, direction) ==
  IF n = 0 THEN <<>>
  ELSE InsertSorted(n, StableSort(n - 1, keys, type, direction), keys, type, direction)

\* The orders of the positions 1..n.
Orders(n) == Permutations(1..n)

\* Variant of Reorder that puts one element at every position.
Reorder_FirstEverywhere(list, p) == [i \in 1..Len(list) |-> list[p[1]]]

\* list with its elements in the order p of their positions.
Reorder(list, p) == [i \in 1..Len(list) |-> list[p[i]]]

\* Lines 100-130: processedUsers.sort(comparator). The sort is stable; with a
\* comparator that is not consistent the order is implementation-defined.
SortStage(list, config, zone) ==
  IF config.key = "" THEN {list}
  ELSE LET type == ColumnOf(config.key).type
           keys == SortKeys(list, config.key, type, zone)
       IN IF Consistent(keys, type, config.direction)
            THEN {Reorder(list, StableSort(Len(list), keys, type, config.direction))}
            ELSE {Reorder(list, p) : p \in Orders(Len(list))}

\* Lines 49-132: filteredAndSortedUsers, as the lists it may be.
filteredAndSortedUsers(list, query, column, range, filter, config, zone) ==
  SortStage(MfaStage(DateStage(SearchStage(list, query), column, range, zone), filter),
            config, zone)

(***************************************************************************)
(* What the component is given: the response of GET /api/users, the        *)
(* operator's input, the browser's zone.                                   *)
(***************************************************************************)
dJan9 == <<"J","a","n"," ","9"," ","2","0","2","5">>

dJan10 == <<"J","a","n"," ","1","0"," ","2","0","2","5">>

\* Not a date in any format.
dNone == <<"n","/","a">>

\* The value of an <input type="date">: empty, or a day as YYYY-MM-DD.
DateInputs == {<<>>, <<"2","0","2","5","-","0","1","-","1","0">>}

\* The time of the read the component fetched.
FetchNow == 24 * DaysFromCivil(2025, 1, 11)

tableRow1 == Row(<<"b","o">>, NullString(dJan10), NullString(dJan1), NullString(dJan11), "true")

tableRow2 == Row(<<"A","l">>, NullString(dJan9), NullString(dIso), NullString(dNone), "false")

tableRow3 == Row(<<"c","y">>, SqlNull, NullString(dJan11), NullString(<<>>), "null")

tableRow4 == Row(<<"D","i">>, NullString(dJan11), SqlNull, NullString(dJan9), "true")

\* The body of a read of a table with these rows: what response.json() gives.
Served(rows) == EncodeUsers(DeriveAll(FetchNow, ScanRows(rows)))

UserLists ==
  { Served(<<tableRow1, tableRow2, tableRow3>>),
    Served(<<tableRow4, tableRow2, tableRow1>>) }

\* What the operator types into the search box.
Queries == {<<>>, <<"O">>, <<"j","a","n">>}

\* The options of the MFA select (lines 208-210).
MfaOptions == {<<"a","l","l">>, <<"Y","e","s">>, <<"N","o">>}

Directions == {"ascending", "descending"}

(***************************************************************************)
(* The component's effects and handlers. Each ends in a render, in which   *)
(* useMemo computes filteredAndSortedUsers from the new state.             *)
(***************************************************************************)
\* The table is on the page: the fetch has ended, with no error (lines 164-175).
Rendered == ~loading /\ error = ""

\* Lines 29-47, response.ok: setUsers(data), setLoading(false).
FetchUsers(data) ==
  /\ loading
  /\ tableUsers' = data
  /\ loading' = FALSE
  /\ shown' \in filteredAndSortedUsers(data, searchQuery, dateFilterColumn, dateRange,
                                        mfaFilter, sortConfig, tz)
  /\ UNCHANGED <<error, sortConfig, searchQuery, dateFilterColumn, dateRange, mfaFilter, tz>>
  /\ UNCHANGED back
  /\ UNCHANGED form

\* Lines 29-47, the catch: setError(e.message), setLoading(false).
FetchUsersFails ==
  /\ loading
  /\ error' = "HTTP error"
  /\ loading' = FALSE
  /\ UNCHANGED <<tableUsers, sortConfig, searchQuery, dateFilterColumn, dateRange,
                 mfaFilter, tz, shown>>
  /\ UNCHANGED back
  /\ UNCHANGED form

\* Line 194: setSearchQuery(e.target.value).
SetSearchQuery(query) ==
  /\ Rendered
  /\ searchQuery' = query
  /\ shown' \in filteredAndSortedUsers(tableUsers, query, dateFilterColumn, dateRange,
                                        mfaFilter, sortConfig, tz)
  /\ UNCHANGED <<tableUsers, loading, error, sortConfig, dateFilterColumn, dateRange,
                 mfaFilter, tz>>
  /\ UNCHANGED back
  /\ UNCHANGED form

\* Line 206: setMfaFilter(e.target.value).
SetMfaFilter(filter) ==
  /\ Rendered
  /\ mfaFilter' = filter
  /\ shown' \in filteredAndSortedUsers(tableUsers, searchQuery, dateFilterColumn,
                                        dateRange, filter, sortConfig, tz)
  /\ UNCHANGED <<tableUsers, loading, error, sortConfig, searchQuery, dateFilterColumn,
                 dateRange, tz>>
  /\ UNCHANGED back
  /\ UNCHANGED form

\* Line 223: setDateFilterColumn(e.target.value).
SetDateFilterColumn(column) ==
  /\ Rendered
  /\ dateFilterColumn' = column
  /\ shown' \in filteredAndSortedUsers(tableUsers, searchQuery, column, dateRange,
                                        mfaFilter, sortConfig, tz)
  /\ UNCHANGED <<tableUsers, loading, error, sortConfig, searchQuery, dateRange,
                 mfaFilter, tz>>
  /\ UNCHANGED back
  /\ UNCHANGED form

\* Lines 156-158: handleDateInputChange, for the input named name.
handleDateInputChange(name, value) ==
  /\ Rendered
  /\ dateFilterColumn # ""
  /\ dateRange' = [dateRange EXCEPT ![name] = value]
  /\ shown' \in filteredAndSortedUsers(tableUsers, searchQuery, dateFilterColumn,
                                        dateRange', mfaFilter, sortConfig, tz)
  /\ UNCHANGED <<tableUsers, loading, error, sortConfig, searchQuery, dateFilterColumn,
                 mfaFilter, tz>>
  /\ UNCHANGED back
  /\ UNCHANGED form

\* Lines 160-162: clearDateFilters; its button is there when a bound is set
\* (line 259).
clearDateFilters ==
  /\ Rendered
  /\ dateFilterColumn # ""
  /\ dateRange.startDate # <<>> \/ dateRange.endDate # <<>>
  /\ dateRange' = [startDate |-> <<>>, endDate |-> <<>>]
  /\ shown' \in filteredAndSortedUsers(tableUsers, searchQuery, dateFilterColumn,
                                        dateRange', mfaFilter, sortConfig, tz)
  /\ UNCHANGED <<tableUsers, loading, error, sortConfig, searchQuery, dateFilterColumn,
                 mfaFilter, tz>>
  /\ UNCHANGED back
  /\ UNCHANGED form

\* Variant of NextSortConfig that always sets ascending.
NextSortConfig_AlwaysAscending(config, key) == [key |-> key, direction |-> "ascending"]

\* Variant of NextSortConfig that never leaves descending on a column.
NextSortConfig_StaysDescending(config, key) ==
  IF config.key = key THEN [key |-> key, direction |-> "descending"]
  ELSE [key |-> key, direction |-> "ascending"]

\* Lines 135-141: the sortConfig that requestSort(key) sets.
NextSortConfig(config, key) ==
  IF config.key = key /\ config.direction = "ascending"
    THEN [key |-> key, direction |-> "descending"]
  ELSE IF config.key = key /\ config.direction = "descending"
    THEN [key |-> key, direction |-> "ascending"]
  ELSE [key |-> key, direction |-> "ascending"]

\* Variant of requestSort whose render sorts the fetched list itself, with
\* no copy of it.
requestSort_InPlace(key) ==
  /\ Rendered
  /\ sortConfig' = NextSortConfig(sortConfig, key)
  /\ shown' \in filteredAndSortedUsers(tableUsers, searchQuery, dateFilterColumn,
                                        dateRange, mfaFilter, sortConfig', tz)
  /\ tableUsers' \in SortStage(tableUsers, sortConfig', tz)
  /\ UNCHANGED <<loading, error, searchQuery, dateFilterColumn, dateRange,
                 mfaFilter, tz>>
  /\ UNCHANGED back
  /\ UNCHANGED form

\* Lines 134-142: requestSort, the click on a column header (line 281).
requestSort(key) ==
  /\ Rendered
  /\ sortConfig' = NextSortConfig(sortConfig, key)
  /\ shown' \in filteredAndSortedUsers(tableUsers, searchQuery, dateFilterColumn,
                                        dateRange, mfaFilter, sortConfig', tz)
  /\ UNCHANGED <<tableUsers, loading, error, searchQuery, dateFilterColumn, dateRange,
                 mfaFilter, tz>>
  /\ UNCHANGED back
  /\ UNCHANGED form

FrontNext ==
  \/ \E data \in UserLists : FetchUsers(data)
  \/ FetchUsersFails
  \/ \E query \in Queries : SetSearchQuery(query)
  \/ \E filter \in MfaOptions : SetMfaFilter(filter)
  \/ \E column \in dateColumns : SetDateFilterColumn(column.key)
  \/ \E name \in {"startDate", "endDate"}, value \in DateInputs :
       handleDateInputChange(name, value)
  \/ clearDateFilters
  \/ \E key \in ColumnKeys : requestSort(key)

\* One browser with the component; the server is not modelled further than
\* the responses in UserLists.
FrontStart == BackInit /\ store = <<rowA, rowB>> /\ FrontInit /\ FormInit

FrontSpec == FrontStart /\ [][FrontNext]_vars

(***************************************************************************)
(* The table: sort, date range, search (C12 to C20).                       *)
(***************************************************************************)
\* The lists between the stages of filteredAndSortedUsers in this state.
Searched == SearchStage(tableUsers, searchQuery)

Ranged == DateStage(Searched, dateFilterColumn, dateRange, tz)

Filtered == MfaStage(Ranged, mfaFilter)

\* The record is in the list; records differ in humanUser.
InList(user, list) == \E i \in 1..Len(list) : list[i] = user

\* The position of the record in the list.
PositionIn(user, list) == CHOOSE i \in 1..Len(list) : list[i] = user

\* The client can read the field of the record as a date.
ValidDate(user, key) == JsDateOf(user, key, tz).ok

\* C12: in a list sorted by a date column, no record whose date is
\* unparseable comes before a record with a valid date, in either direction.
C12_InvalidDatesLast ==
  (Rendered /\ ColumnOf(sortConfig.key).type = "date") =>
    \A i, j \in 1..Len(shown) :
      (i < j /\ ValidDate(shown[j], sortConfig.key)) => ValidDate(shown[i], sortConfig.key)

\* The day number of a date "Jan 2 2006" in a field of a record; -1 for any
\* other value.
CalendarDay(user, key) ==
  IF key \in DOMAIN user /\ Parse(user[key]).ok THEN Parse(user[key]).hours \div 24 ELSE -1

\* The day number of the value of a date input.
InputDay(value) == IsoParse(value).hours \div 24

\* C13: with only a start bound set, a record dated on the bound's calendar
\* day is kept and one dated the day before is removed, in every time zone.
C13_StartBoundary ==
  (Rendered /\ dateRange.startDate # <<>> /\ dateRange.endDate = <<>>) =>
    \A i \in 1..Len(Searched) :
      LET user == Searched[i]
          day == CalendarDay(user, dateFilterColumn)
      IN /\ day = InputDay(dateRange.startDate) => InList(user, Ranged)
         /\ day = InputDay(dateRange.startDate) - 1 => ~InList(user, Ranged)

\* C14: with only an end bound set, a record dated on the bound's calendar
\* day is kept and one dated the day after is removed, in every time zone.
C14_EndBoundary ==
  (Rendered /\ dateRange.endDate # <<>> /\ dateRange.startDate = <<>>) =>
    \A i \in 1..Len(Searched) :
      LET user == Searched[i]
          day == CalendarDay(user, dateFilterColumn)
      IN /\ day = InputDay(dateRange.endDate) => InList(user, Ranged)
         /\ day = InputDay(dateRange.endDate) + 1 => ~InList(user, Ranged)

\* A bound of the range is set.
RangeActive == dateRange.startDate # <<>> \/ dateRange.endDate # <<>>

\* The selected date field of the record is missing, empty, or not a date
\* the client can read.
NoSelectedDate(user) ==
  \/ dateFilterColumn \notin DOMAIN user
  \/ user[dateFilterColumn] = <<>>
  \/ ~ValidDate(user, dateFilterColumn)

\* C15: with no bound set the date filter removes nothing; with a bound set
\* it removes every record whose selected date is empty or unparseable, and
\* none of them is rendered.
C15_RangeFilter ==
  Rendered =>
    IF RangeActive
      THEN /\ \A i \in 1..Len(Ranged) :
                InList(Ranged[i], Searched) /\ ~NoSelectedDate(Ranged[i])
           /\ \A i \in 1..Len(shown) : ~NoSelectedDate(shown[i])
      ELSE Ranged = Searched

C15_Witness ==
  /\ Rendered
  /\ RangeActive
  /\ Ranged # <<>>
  /\ \E i \in 1..Len(Searched) :
       dateFilterColumn \notin DOMAIN Searched[i] /\ ~InList(Searched[i], Ranged)
  /\ \E i \in 1..Len(Searched) :
       /\ dateFilterColumn \in DOMAIN Searched[i]
       /\ ~ValidDate(Searched[i], dateFilterColumn)
       /\ ~InList(Searched[i], Ranged)

Flip(direction) == IF direction = "ascending" THEN "descending" ELSE "ascending"

\* The sort state after the column key is selected in the state config: the
\* direction flipped on the active column, ascending on another one.
Selected(config, key) ==
  [key |-> key,
   direction |-> IF config.key = key THEN Flip(config.direction) ELSE "ascending"]

\* C16: requestSort on the active column flips the direction, on another
\* column makes it the active one, ascending; the sort state changes in no
\* other way, and it is always one column and one direction.
C16_RequestSort ==
  [][/\ \A key \in ColumnKeys : NextSortConfig(sortConfig, key) = Selected(sortConfig, key)
     /\ sortConfig' # sortConfig =>
          \E key \in ColumnKeys : sortConfig' = Selected(sortConfig, key)
     /\ (sortConfig.key \in ColumnKeys /\ sortConfig.direction \in Directions)'
    ]_vars

C16_Witness ==
  /\ Rendered
  /\ sortConfig = [key |-> "mfaEnabled", direction |-> "descending"]
  /\ Len(shown) >= 2

\* The sort state after key is selected twice in succession.
SelectedTwice(config, key) == NextSortConfig(NextSortConfig(config, key), key)

\* C17, as stated: from any sort state, two selections of a column in
\* succession leave the list sorted on it ascending.
C17_TwiceIsAscending ==
  Rendered =>
    \A key \in ColumnKeys :
      SelectedTwice(sortConfig, key) = [key |-> key, direction |-> "ascending"]

\* C17, amended: two selections of a column in succession leave it the
\* active column, with the direction it had before them when it was the
\* active column already, and descending when another column was; the list
\* rendered is the sort of the filtered list by the sort state.
C17_TwiceRestoresOrDescends ==
  Rendered =>
    /\ \A key \in ColumnKeys :
         SelectedTwice(sortConfig, key) =
           [key |-> key,
            direction |-> IF sortConfig.key = key THEN sortConfig.direction
                          ELSE "descending"]
    /\ shown \in SortStage(Filtered, sortConfig, tz)

C17_Witness ==
  /\ Rendered
  /\ sortConfig = [key |-> "humanUser", direction |-> "descending"]
  /\ Len(shown) = 3
  /\ shown[1]["humanUser"] = <<"D","i">>

\* C18: two records whose sort keys compare equal are rendered in the order
\* they had in the list that entered the sort, in both directions.
C18_StableSort ==
  Rendered =>
    \A i, j \in 1..Len(Filtered) :
      (i < j /\ Compare(Filtered[i], Filtered[j], sortConfig, tz) = 0) =>
        PositionIn(Filtered[i], shown) < PositionIn(Filtered[j], shown)

\* s has t in it, the case of letters ignored.
ContainsFold(s, t) ==
  \E i \in 0..(Len(s) - Len(t)) : EqualFold(SubSeq(s, i + 1, i + Len(t)), t)

\* Some column flagged searchable has the query in its value.
MatchesQuery(user, query) ==
  \E c \in Columns : c.searchable /\ ContainsFold(JsString(user, c.key), query)

\* C19: with a query, the search keeps exactly the records in which some
\* searchable column has the query as a substring, the case of letters
\* ignored; the other columns cause no match.
C19_SearchKeepsMatches ==
  (Rendered /\ searchQuery # <<>>) =>
    /\ \A i \in 1..Len(tableUsers) :
         InList(tableUsers[i], Searched) <=> MatchesQuery(tableUsers[i], searchQuery)
    /\ \A i \in 1..Len(Searched) : InList(Searched[i], tableUsers)

C19_Witness ==
  /\ Rendered
  /\ searchQuery # <<>>
  /\ Len(Searched) = 2
  /\ Len(tableUsers) = 3
  /\ \E i, j \in 1..2 :
       /\ Includes(ToLower(Searched[i]["humanUser"]), ToLower(searchQuery))
       /\ ~Includes(ToLower(Searched[j]["humanUser"]), ToLower(searchQuery))

\* C20: with an empty query the search stage gives the list it was given,
\* element for element.
C20_EmptyQueryKeepsAll ==
  (Rendered /\ searchQuery = <<>>) => Searched = tableUsers

C20_Witness ==
  /\ Rendered
  /\ searchQuery = <<>>
  /\ Len(tableUsers) = 3
  /\ dateRange.startDate # <<>>
  /\ Len(shown) < 3

(***************************************************************************)
(* The table: the MFA filter (C21).                                        *)
(***************************************************************************)
\* The record has the field mfaEnabled, with exactly this value.
HasMfa(user, value) == "mfaEnabled" \in DOMAIN user /\ user["mfaEnabled"] = value

\* C21: with the value "all" the MFA filter gives the list it was given; with
\* another value it gives exactly the records whose mfaEnabled is that value,
\* letter for letter.
C21_MfaFilter ==
  Rendered =>
    IF mfaFilter = <<"a","l","l">>
      THEN Filtered = Ranged
      ELSE /\ \A i \in 1..Len(Ranged) :
                InList(Ranged[i], Filtered) <=> HasMfa(Ranged[i], mfaFilter)
           /\ \A i \in 1..Len(Filtered) : InList(Filtered[i], Ranged)
           /\ \A i, j \in 1..Len(Filtered) :
                i < j => PositionIn(Filtered[i], Ranged) < PositionIn(Filtered[j], Ranged)

C21_Witness ==
  /\ Rendered
  /\ mfaFilter = <<"Y","e","s">>
  /\ Len(Filtered) = 1
  /\ Len(Ranged) = 3
  /\ \E i \in 1..3 : HasMfa(Ranged[i], <<"N","o">>)

(***************************************************************************)
(* The server: the snapshot and the store (C22 to C30).                    *)
(***************************************************************************)
\* Every record of the list has a name, and no two have the same one.
NamesDistinct(list) ==
  /\ \A i \in 1..Len(list) : list[i].HumanUser # <<>>
  /\ \A i, j \in 1..Len(list) : list[i].HumanUser = list[j].HumanUser => i = j

\* C22: in every list loadUsers has assigned to the cache, at boot or after
\* a POST, every record has a non-empty humanUser and no two records have the
\* same humanUser.
C22_NamesDistinct ==
  /\ \A k \in 1..Len(snaps) : NamesDistinct(snaps[k])
  /\ \A h \in Reqs : NamesDistinct(loaded[h])

C22_Witness ==
  /\ Len(snaps) >= 2
  /\ Len(snaps[Len(snaps)]) = 3
  /\ \E h \in Reqs :
       /\ respStatus[h] = 500
       /\ PostOf(h)
       /\ \E i \in 1..Len(store) : store[i].human_user = HumanUserOf(h)

\* The list has one record for each of the first n rows of the table, in
\* their order. Rows are only ever added at the end of the table, so the rows
\* a load was given are the first n rows of the table of any later state.
OneRecordPerRow(list, n) ==
  /\ Len(list) = n
  /\ \A i \in 1..n : list[i].HumanUser = store[i].human_user

\* C23: every list loadUsers assigns to the cache has exactly one record for
\* each row its query returned, also when a row of it fails to decode.
C23_SnapshotComplete ==
  \A k \in 1..Len(snaps) : \E n \in 0..Len(store) : OneRecordPerRow(snaps[k], n)

\* No handler has run: no request was taken, none was answered.
NothingServed == \A h \in Reqs : pc[h] = "idle" /\ respStatus[h] = 0

\* C24: when the load of main fails the process exits without having
\* listened; the process listens, and a request is served, only after that
\* load has assigned a list to the cache.
C24_BootFailureIsFatal ==
  /\ (phase = "exited" /\ snaps = <<>>) => NothingServed
  /\ (phase = "serving" \/ ~NothingServed) => (snaps # <<>> /\ phase # "boot")

C24_Witness == phase = "exited" /\ snaps = <<>> /\ users = Slice(<<>>) /\ store # <<>>

\* A step of the handler of a read: line 239, or lines 240 to 276.
ReadStep(h) ==
  \/ pc[h] = "idle" /\ pc'[h] = "copy"
  \/ pc[h] = "copy" /\ pc'[h] = "done"

\* The records of the cache are those of a list loadUsers assigned, derived
\* fields included (loadUsers leaves them 0).
CacheAsPublished ==
  /\ snaps # <<>> => \E k \in 1..Len(snaps) : users.data = snaps[k]
  /\ \A i \in 1..Len(users.data) :
       /\ users.data[i].DaysSinceLastPasswordChange = 0
       /\ users.data[i].DaysSinceLastAccess = 0

\* C25: a step of a read changes neither the cache nor the store, and the
\* records of the cache stay as loadUsers assigned them: no read writes a
\* derived field into them.
C25_ReadChangesNothing ==
  [][/\ \A h \in Reqs : ReadStep(h) => UNCHANGED <<store, users, snaps, loaded>>
     /\ CacheAsPublished'
    ]_vars

C25_Witness ==
  \E h \in Reqs :
    /\ ReadDone(h)
    /\ Len(respUsers[h]) = Len(users.data)
    /\ \E i \in 1..Len(respUsers[h]) :
         /\ respUsers[h][i].DaysSinceLastAccess > 0
         /\ respUsers[h][i].HumanUser = users.data[i].HumanUser
         /\ users.data[i].DaysSinceLastAccess = 0

\* The handler of h has queried the table for the record list.
Reloaded(h) == \E k \in 1..Len(ops[h]) : ops[h][k].op = "query"

\* C26: the table is queried for the record list by main, once, and by the
\* handler of a POST whose insert has succeeded; the handlers of GET, of
\* OPTIONS and of other verbs, and a POST that was rejected or whose insert
\* failed, do not query it.
C26_LoadsOnlyAfterInsert ==
  /\ \A h \in Reqs :
       /\ Reloaded(h) =>
            /\ req[h].method = "POST"
            /\ req[h].body.ok /\ HumanUserOf(h) # <<>> /\ (IsYes(MfaOf(h)) \/ IsNo(MfaOf(h)))
            /\ req[h].fault = "none"
            /\ \E i \in 1..Len(store) : store[i] = SubmittedRow(h)
       /\ req[h].method \in {"GET", "OPTIONS", "PUT"} => ops[h] = <<>>
       /\ respStatus[h] \in {400, 405, 500} => ~Reloaded(h)
  /\ Len(snaps) <= (IF phase = "boot" THEN 0 ELSE 1) + Cardinality({h \in Reqs : Reloaded(h)})

C26_Witness ==
  \E h, g \in Reqs :
    /\ Reloaded(h) /\ respStatus[h] = 201
    /\ ReadDone(g) /\ ops[g] = <<>> /\ Len(respUsers[g]) = 3
    /\ Len(snaps) = 2

(***************************************************************************)
(* The server beside a client of the database that changes users_table     *)
(* directly while the server runs (C27).                                   *)
(***************************************************************************)
\* The row the other client inserts.
rowZ == Row(<<"Z">>, NullString(dJan1), NullString(dJan1), NullString(dJan1), "false")

\* An INSERT into users_table that is not made by addUser, after main has
\* loaded the table.
DirectChange ==
  /\ phase = "serving"
  /\ ~KeyExists(store, rowZ.human_user)
  /\ store' = Append(store, rowZ)
  /\ UNCHANGED <<phase, users, snaps, pc, req, rlen, rfirst, rlast, loaded, pend, ops,
                 failed, respStatus, respBody, respUsers, rnow>>
  /\ UNCHANGED front
  /\ UNCHANGED form

\* The requests of these runs: reads, and POSTs of a well-formed record.
DirectBodies == { Body5(<<"C">>, dJan1, dJan1, dJan11, <<"Y","e","s">>) }

DirectNext ==
  \/ \E fault \in QueryFaults : MainLoadUsers(fault)
  \/ \E h \in Reqs : GetUsersLen(h, "GET")
  \/ \E h \in Reqs, fill \in Fillers : GetUsersCopy(h, FetchNow, fill)
  \/ \E h \in Reqs, body \in DirectBodies : AddUser(h, "POST", body)
  \/ \E h \in Reqs, fault \in DbFaults : AddUserInsert(h, fault)
  \/ \E h \in Reqs : LoadUsersQuery(h, "none")
  \/ \E h \in Reqs, w \in {"data", "len"} : LoadUsersAssign(h, w)
  \/ \E h \in Reqs : LoadUsersAssigned(h)
  \/ DirectChange

DirectStart == Init /\ store = <<rowA, rowB>>

DirectSpec == DirectStart /\ [][DirectNext]_vars

\* The list has the record of the row that was inserted directly.
HasDirect(list) == \E i \in 1..Len(list) : list[i].HumanUser = rowZ.human_user

\* The handler of g, a POST, has loaded the table with the direct change in
\* it and has begun to assign the list to the cache.
RefreshedWith(g) ==
  /\ req[g].method = "POST"
  /\ Reloaded(g)
  /\ HasDirect(loaded[g])
  /\ pc[g] \in {"assign2", "done"}

DateFields == {"createDate", "passwordChangedDate", "lastAccessDate"}

\* The body has the field, and it is a date in the form "Jan 2 2006".
WellFormedDate(body, k) == k \in DOMAIN body.obj /\ Parse(body.obj[k]).ok

\* C28: a POST with a date field that is missing, empty or not in the form
\* "Jan 2 2006" is not accepted: it is never answered 201, its record is
\* never put into the table, and it is not passed on to the insert.
C28_DatesValidated ==
  \A h \in Reqs :
    (PostOf(h) /\ \E k \in DateFields : ~WellFormedDate(req[h].body, k)) =>
      /\ respStatus[h] # 201
      /\ ~\E i \in 1..Len(store) : store[i] = SubmittedRow(h)
      /\ pc[h] = "done" /\ respStatus[h] = 400

\* C29: the insert of a POST whose humanUser is the key of a row of the
\* table is answered 500 with "Failed to add user to database"; every row of
\* the table stays as it was and none is added, the cache and the lists
\* published stay as they were, and the table is not loaded.
C29_DuplicateKeyReported ==
  [][\A h \in Reqs :
       (Inserts(h) /\ DuplicateKey(h) /\ req'[h].fault # "prepare") =>
         /\ respStatus'[h] = 500
         /\ respBody'[h] = "Failed to add user to database"
         /\ pc'[h] = "done"
         /\ Len(store') = Len(store)
         /\ \A i \in 1..Len(store) : store'[i] = store[i]
         /\ users' = users /\ snaps' = snaps
         /\ ~Reloaded(h)'
    ]_vars

C29_Witness ==
  \E h \in Reqs :
    /\ PostOf(h) /\ pc[h] = "done"
    /\ req[h].fault = "none"
    /\ respBody[h] = "Failed to add user to database"
    /\ \E i \in 1..Len(store) :
         store[i].human_user = HumanUserOf(h) /\ store[i] # SubmittedRow(h)

(***************************************************************************)
(* usersHandler (C30).                                                     *)
(***************************************************************************)
\* C30: the step that takes a request depends on its method alone: OPTIONS
\* is answered 200 with no body, GET goes into getUsers, POST goes into
\* addUser, any other method is answered 405 "Method not allowed"; the steps
\* of OPTIONS and of the other methods change neither the table nor the
\* cache, and make no call to the database.
C30_Dispatch ==
  [][\A h \in Reqs :
       Taken(h) =>
         LET m == req'[h].method
         IN /\ m = "OPTIONS" =>
                 /\ pc'[h] = "done" /\ respStatus'[h] = 200 /\ respBody'[h] = ""
                 /\ UNCHANGED <<store, users, snaps>> /\ ops'[h] = <<>>
            /\ m = "GET" => pc'[h] = "copy" /\ rlen'[h] = users.len /\ respStatus'[h] = 0
            /\ m = "POST" =>
                 \/ pc'[h] = "insert" /\ respStatus'[h] = 0
                 \/ pc'[h] = "done" /\ respStatus'[h] = 400
            /\ m \notin {"OPTIONS", "GET", "POST"} =>
                 /\ pc'[h] = "done" /\ respStatus'[h] = 405
                 /\ respBody'[h] = "Method not allowed"
                 /\ UNCHANGED <<store, users, snaps>> /\ ops'[h] = <<>>
    ]_vars

C30_Witness ==
  \E h, g \in Reqs :
    /\ req[h].method = "OPTIONS" /\ respStatus[h] = 200 /\ respBody[h] = ""
    /\ req[g].method = "PUT" /\ respStatus[g] = 405

(***************************************************************************)
(* loadUsers: the order and the MFA values of a snapshot (C31).            *)
(***************************************************************************)
\* The MFA value of the record of a row: "Yes" for true, "No" for false and
\* for NULL.
MfaOfRow(row) == IF row.mfa_enabled = "true" THEN <<"Y","e","s">> ELSE <<"N","o">>

\* The list has the records of rows, one for each, in their order, each with
\* the name of its row and the MFA value of its row.
RecordsOfRows(list, rows) ==
  /\ Len(list) = Len(rows)
  /\ \A i \in 1..Len(rows) :
       /\ list[i].HumanUser = rows[i].human_user
       /\ list[i].MFAEnabled = MfaOfRow(rows[i])

\* C31: every list loadUsers has assigned holds the records of the rows its
\* query returned and Scan decoded, in the order of the query, each with
\* mfaEnabled "Yes" for true and "No" for false or NULL; no record of a list
\* has another mfaEnabled.
C31_OrderAndMfa ==
  \A k \in 1..Len(snaps) :
    /\ \E n \in 0..Len(store) :
         RecordsOfRows(snaps[k], SelectSeq(SubSeq(store, 1, n), ScanOk))
    /\ \A i \in 1..Len(snaps[k]) :
         snaps[k][i].MFAEnabled \in {<<"Y","e","s">>, <<"N","o">>}

C31_Witness ==
  /\ store = <<rowA, rowB, ExecRow(Body5(<<"C">>, dJan1, dOld, dJan11, <<"Y","E","S">>))>>
  /\ Len(snaps) = 2
  /\ Len(snaps[2]) = 3
  /\ snaps[2][2].MFAEnabled = <<"N","o">> /\ store[2].mfa_enabled = "null"
  /\ snaps[2][3].MFAEnabled = <<"Y","e","s">>

(***************************************************************************)
(* Concurrent POSTs: the refresh of one and the answer of another (C32).   *)
(***************************************************************************)
\* No assignment of line 214 is under way: the header of `users` is whole.
HeaderWhole == \A g \in Reqs : pc[g] # "assign2"

\* The list a read that starts now copies.
CachedNow == SubSeq(users.data, 1, Min(users.len, Len(users.data)))

\* C32: once a POST has been answered 201, the cache holds its record in
\* every later state, so every read that starts afterwards returns it, for
\* every interleaving of the handlers.
C32_AnsweredRecordStays ==
  \A h \in Reqs :
    (respStatus[h] = 201 /\ HeaderWhole) =>
      \E i \in 1..Len(CachedNow) : CachedNow[i].HumanUser = HumanUserOf(h)

(***************************************************************************)
(* The table: the pipeline as a whole (C33 to C35).                        *)
(***************************************************************************)
\* The metric of a record as the server computed it: a metric of 0 is left
\* out of the JSON object.
Metric(user, key) == IF key \in DOMAIN user THEN user[key] ELSE 0

\* C33: the list rendered under a sort by a numeric column is in
\* non-decreasing order of the metric when the direction is ascending and in
\* non-increasing order when it is descending.
C33_NumericOrder ==
  (Rendered /\ ColumnOf(sortConfig.key).type = "number") =>
    \A i, j \in 1..Len(shown) :
      i < j =>
        IF sortConfig.direction = "ascending"
          THEN Metric(shown[i], sortConfig.key) <= Metric(shown[j], sortConfig.key)
          ELSE Metric(shown[i], sortConfig.key) >= Metric(shown[j], sortConfig.key)

\* The record passes the three filters in this state.
PassesFilters(user) ==
  /\ searchQuery = <<>> \/ MatchesQuery(user, searchQuery)
  /\ InList(user, Ranged)
  /\ mfaFilter = <<"a","l","l">> \/ HasMfa(user, mfaFilter)

\* C34: the list rendered has exactly the fetched records that pass the
\* three filters, each of them once, so it is never longer than the fetched
\* list.
C34_PermutationOfFiltered ==
  Rendered =>
    /\ \A i \in 1..Len(tableUsers) :
         InList(tableUsers[i], shown) <=> PassesFilters(tableUsers[i])
    /\ \A i \in 1..Len(shown) : InList(shown[i], tableUsers)
    /\ \A i, j \in 1..Len(shown) : shown[i] = shown[j] => i = j
    /\ \E p \in Orders(Len(Filtered)) : shown = Reorder(Filtered, p)
    /\ Len(shown) <= Len(tableUsers)

C34_Witness ==
  /\ Rendered
  /\ Len(tableUsers) = 3
  /\ Len(shown) = 2
  /\ searchQuery # <<>>
  /\ shown # Filtered

\* C35: once the list is fetched, no change of the search text, the date
\* range, the date column, the MFA filter or the sort state changes it: it
\* keeps the records, in the order, of the response it was fetched from.
C35_FetchedListKept ==
  [][/\ Rendered => tableUsers' = tableUsers
     /\ Rendered' => tableUsers' \in UserLists
    ]_vars

C35_Witness ==
  /\ Rendered
  /\ tableUsers \in UserLists
  /\ Len(shown) = Len(tableUsers)
  /\ shown # tableUsers
  /\ sortConfig.key = "humanUser"
  /\ searchQuery = <<>> /\ mfaFilter = <<"a","l","l">> /\ ~RangeActive

(***************************************************************************)
(* addUser and loadUsers: a record written and read back (C36).            *)
(***************************************************************************)
\* The record is the one the POST of h submitted: its name and its three
\* dates letter for letter, its MFA value as "Yes" or "No".
IsSubmitted(u, h) ==
  /\ u.HumanUser = HumanUserOf(h)
  /\ u.CreateDate = Field(req[h].body, "createDate")
  /\ u.PasswordChangedDate = Field(req[h].body, "passwordChangedDate")
  /\ u.LastAccessDate = Field(req[h].body, "lastAccessDate")
  /\ u.MFAEnabled = (IF IsYes(MfaOf(h)) THEN <<"Y","e","s">> ELSE <<"N","o">>)

\* C36: the list that the refresh of a POST answered 201 has assigned to the
\* cache holds exactly one record with the submitted humanUser, and it has
\* the three submitted date strings and mfaEnabled "Yes" or "No" by the
\* submitted value, the case of its letters ignored.
C36_RoundTrip ==
  \A h \in Reqs :
    respStatus[h] = 201 =>
      /\ \E k \in 1..Len(snaps) : snaps[k] = loaded[h]
      /\ \E i \in 1..Len(loaded[h]) : IsSubmitted(loaded[h][i], h)
      /\ \A i \in 1..Len(loaded[h]) :
           loaded[h][i].HumanUser = HumanUserOf(h) => IsSubmitted(loaded[h][i], h)

C36_Witness ==
  \E h, g \in Reqs :
    /\ respStatus[h] = 201 /\ MfaOf(h) = <<"Y","E","S">>
    /\ respStatus[g] = 201 /\ MfaOf(g) = <<"n","O">>
    /\ Field(req[g].body, "createDate") = <<>>
    /\ \E i \in 1..Len(loaded[h]) : loaded[h][i].MFAEnabled = <<"Y","e","s">>

(***************************************************************************)
(* The add-user form of the component (part_000, lines 17-121, 257,        *)
(* 410-457).                                                               *)
(***************************************************************************)
\* The POSTs the form sends in a run.
MaxPosts == 2

\* Lines 18-25: formatDateForAPI, for the value of a date input ("" or a
\* date YYYY-MM-DD): the month's name, the day without a leading zero, the
\* year.
\* monthNames (line 23) has the names of the server's layout; DayString is
\* the template's String(n) for the day of the month.
formatDateForAPI(isoDateString) ==
  LET monthNames == shortMonthNames
      DayString(n) ==
        IF n < 10 THEN <<Digits[n + 1]>>
        ELSE <<Digits[(n \div 10) + 1], Digits[(n % 10) + 1]>>
  IN IF isoDateString = <<>> THEN <<>>
     ELSE monthNames[TwoDigits(isoDateString, 6)] \o <<" ">>
            \o DayString(TwoDigits(isoDateString, 9)) \o <<" ">>
            \o SubSeq(isoDateString, 1, 4)

\* Variant of Trim that leaves the string as it is.
Trim_None(s) == s

\* String.prototype.trim (line 90), for strings whose white space is the
\* space: what lies from the first to the last character that is no space.
Trim(s) ==
  LET inked == {i \in 1..Len(s) : s[i] # " "}
  IN IF inked = {} THEN <<>>
     ELSE SubSeq(s, CHOOSE i \in inked : \A j \in inked : i <= j,
                    CHOOSE i \in inked : \A j \in inked : i >= j)

\* Lines 95-101: userPayload.
userPayload(user) ==
  [humanUser |-> user.humanUser,
   createDate |-> formatDateForAPI(user.createDate),
   passwordChangedDate |-> formatDateForAPI(user.passwordChangedDate),
   lastAccessDate |-> formatDateForAPI(user.lastAccessDate),
   mfaEnabled |-> user.mfaEnabled]

\* What fetch gives for the POST: a response that is ok; one that is not,
\* with a body that is no JSON (the text of http.Error) or a JSON object with
\* a message; or no response at all (fetch rejects).
PostResponses ==
  { [kind |-> "ok", message |-> ""],
    [kind |-> "text", message |-> ""],
    [kind |-> "json", message |-> "HumanUser cannot be empty"],
    [kind |-> "network", message |-> "Failed to fetch"] }

\* Lines 60-76 of part_000, response.ok: setUsers(data), setError(null),
\* setLoading(false).
loadUsersReturns(data) ==
  /\ loadsPending > 0
  /\ tableUsers' = data
  /\ error' = ""
  /\ loading' = FALSE
  /\ loadsPending' = loadsPending - 1
  /\ shown' \in filteredAndSortedUsers(data, searchQuery, dateFilterColumn, dateRange,
                                        mfaFilter, sortConfig, tz)
  /\ UNCHANGED <<sortConfig, searchQuery, dateFilterColumn, dateRange, mfaFilter, tz>>
  /\ UNCHANGED <<isAddUserModalOpen, newUser, addUserError, posts, loadCalls>>
  /\ UNCHANGED back

\* Lines 60-76 of part_000, the catch: setError(e.message), setUsers([]),
\* setLoading(false).
loadUsersFails ==
  /\ loadsPending > 0
  /\ tableUsers' = <<>>
  /\ error' = "HTTP error"
  /\ loading' = FALSE
  /\ loadsPending' = loadsPending - 1
  /\ UNCHANGED <<sortConfig, searchQuery, dateFilterColumn, dateRange, mfaFilter, tz, shown>>
  /\ UNCHANGED <<isAddUserModalOpen, newUser, addUserError, posts, loadCalls>>
  /\ UNCHANGED back

\* Line 257: the Add User button of the page (there when the page is not the
\* spinner of line 239 or the error of line 248).
OpenAddUserModal ==
  /\ Rendered
  /\ isAddUserModalOpen' = TRUE
  /\ addUserError' = ""
  /\ newUser' = initialNewUserState
  /\ UNCHANGED <<posts, loadCalls, loadsPending>>
  /\ UNCHANGED <<back, front>>

\* Lines 82-85: handleNewUserChange, for an input of the form.
handleNewUserChange(name, value) ==
  /\ Rendered
  /\ isAddUserModalOpen
  /\ newUser' = [newUser EXCEPT ![name] = value]
  /\ UNCHANGED <<isAddUserModalOpen, addUserError, posts, loadCalls, loadsPending>>
  /\ UNCHANGED <<back, front>>

\* Line 445: the Cancel button of the form.
CancelAddUser ==
  /\ Rendered
  /\ isAddUserModalOpen
  /\ isAddUserModalOpen' = FALSE
  /\ UNCHANGED <<newUser, addUserError, posts, loadCalls, loadsPending>>
  /\ UNCHANGED <<back, front>>

\* Lines 87-110: handleAddUserSubmit up to the await of fetch.
handleAddUserSubmit ==
  /\ Rendered
  /\ isAddUserModalOpen
  /\ IF Trim(newUser.humanUser) = <<>>
       THEN /\ addUserError' = "Username is required."
            /\ UNCHANGED posts
       ELSE /\ Len(posts) < MaxPosts
            /\ addUserError' = ""
            /\ posts' = Append(posts, [payload |-> userPayload(newUser), answer |-> ""])
  /\ UNCHANGED <<isAddUserModalOpen, newUser, loadCalls, loadsPending>>
  /\ UNCHANGED <<back, front>>

\* Lines 111-120: handleAddUserSubmit after the await, for the POST at i.
\* With a response that is ok it closes the form, resets it and calls
\* loadUsers, which sets loading (line 61); else it shows the error.
\* ErrorMessage is err.message of lines 112-113 and 119.
PostAnswered(i, response) ==
  LET ErrorMessage ==
        IF response.kind = "text" THEN "Failed to add user. Server returned an error."
        ELSE IF response.kind = "json"
          THEN (IF response.message # "" THEN response.message ELSE "HTTP error! status")
        ELSE response.message
  IN
  /\ i \in 1..Len(posts)
  /\ posts[i].answer = ""
  /\ IF response.kind = "ok"
       THEN /\ posts' = [posts EXCEPT ![i].answer = "ok"]
            /\ isAddUserModalOpen' = FALSE
            /\ newUser' = initialNewUserState
            /\ loading' = TRUE
            /\ loadCalls' = loadCalls + 1
            /\ loadsPending' = loadsPending + 1
            /\ UNCHANGED addUserError
       ELSE /\ posts' = [posts EXCEPT ![i].answer = "error"]
            /\ addUserError' = ErrorMessage
            /\ UNCHANGED <<isAddUserModalOpen, newUser, loading, loadCalls, loadsPending>>
  /\ UNCHANGED <<tableUsers, error, sortConfig, searchQuery, dateFilterColumn, dateRange,
                 mfaFilter, tz, shown>>
  /\ UNCHANGED back

\* The GET of loadUsers returns a list of three records; the operator types
\* a name or picks a date in the form.
FormNext ==
  \/ \E data \in { Served(<<tableRow1, tableRow2, tableRow3>>) } : loadUsersReturns(data)
  \/ loadUsersFails
  \/ OpenAddUserModal
  \/ \E input \in { <<"humanUser", <<" ">> >>, <<"humanUser", <<"C">> >>,
                     <<"createDate", <<"2","0","2","5","-","0","1","-","0","5">> >> } :
       handleNewUserChange(input[1], input[2])
  \/ CancelAddUser
  \/ handleAddUserSubmit
  \/ \E i \in 1..MaxPosts, response \in PostResponses : PostAnswered(i, response)

FormStart == BackInit /\ store = <<rowA, rowB>> /\ FrontInit /\ tz = 0 /\ FormInit

FormSpec == FormStart /\ [][FormNext]_vars

\* The name is empty or all white space.
WhitespaceOnly(name) == \A i \in 1..Len(name) : name[i] = " "

\* The POST at i gets this answer in the step.
AnsweredWith(i, answer) ==
  i <= Len(posts) /\ posts[i].answer = "" /\ posts'[i].answer = answer

\* C37: no POST is sent with a name that is empty or all white space, and
\* none while the form holds such a name; a POST answered with an error
\* leaves the form open or closed as it was and its fields as they were,
\* shows an error message and calls no loadUsers; a POST answered OK closes
\* the form, resets its fields and calls loadUsers once; loadUsers is called
\* in no other step, and the form is closed otherwise only by Cancel.
C37_SubmitOutcomes ==
  [][/\ \A i \in 1..Len(posts') : ~WhitespaceOnly(posts'[i].payload.humanUser)
     /\ WhitespaceOnly(newUser.humanUser) => Len(posts') = Len(posts)
     /\ \A i \in 1..MaxPosts :
          /\ AnsweredWith(i, "error") =>
               /\ isAddUserModalOpen' = isAddUserModalOpen
               /\ newUser' = newUser
               /\ addUserError' # ""
               /\ loadCalls' = loadCalls /\ loadsPending' = loadsPending
               /\ loading' = loading
          /\ AnsweredWith(i, "ok") =>
               /\ ~isAddUserModalOpen'
               /\ newUser' = initialNewUserState
               /\ loadCalls' = loadCalls + 1 /\ loadsPending' = loadsPending + 1
               /\ loading'
     /\ loadCalls' # loadCalls => \E i \in 1..MaxPosts : AnsweredWith(i, "ok")
     /\ (isAddUserModalOpen /\ ~isAddUserModalOpen') =>
          \/ \E i \in 1..MaxPosts : AnsweredWith(i, "ok")
          \/ UNCHANGED <<newUser, addUserError, posts, loadCalls, loadsPending, front>>
     /\ (loadCalls = 1 + Cardinality({i \in 1..Len(posts) : posts[i].answer = "ok"}))'
    ]_vars

C37_Witness ==
  /\ Len(posts) = 2
  /\ posts[1].answer = "ok"
  /\ posts[2].answer = "error"
  /\ loadCalls = 2
  /\ isAddUserModalOpen
  /\ addUserError = "Failed to add user. Server returned an error."
  /\ newUser.humanUser = <<" ">>

=============================================================================
